---- MODULE Spec2Model ----
(***************************************************************************)
(* Projection engine and correlated-parlay builder of NFL_pre.py.          *)
(*                                                                         *)
(* Numbers.  The program computes with Python floats; the model computes   *)
(* with exact rationals [n, d] (d > 0, lowest terms).  Quantities the      *)
(* program rounds before storing keep their scale as integers:             *)
(*   spread, total, market lines, projected_value, confidence : tenths     *)
(*   edge                                                     : hundredths *)
(* round(x, k) is modelled as round-half-to-even on the exact value.       *)
(***************************************************************************)
EXTENDS Integers, Sequences, FiniteSets, TLC

VARIABLES
    game_context,     \* PredictionEngine.game_context (None until set)
    last_set,         \* history: the context most recently handed to the engine
    outcome,          \* how the last generate_projections call ended
    gen_result,       \* list returned by the last generate_projections call
    gen_raw,          \* the unrounded `projected` argument of each _create_projection of that call
    gen_ctx,          \* history: value of last_set when that call was made
    gen_player,       \* the player of that call
    app_context,      \* NFLAnalyticsApp.game_context
    players,          \* NFLAnalyticsApp.players
    projections,      \* NFLAnalyticsApp.projections
    parlays,          \* list returned by find_correlated_parlays in _run_analysis
    game_script,      \* value of determine_game_script() in that call
    explosive_evals,  \* number of _build_explosive_parlay calls in that call
    pc,               \* position of the application: "review", "done" or "failed"
    edge_magnitude,   \* argument of _calculate_confidence (hundredths of a percent)
    confidence,       \* its result (rational)
    input_context,    \* GameContext returned by InputHandler.get_game_context (None before)
    input_player,     \* PlayerData returned by InputHandler.get_player_data (None before)
    validation_error, \* the last ValidationError caught (NoError: none)
    kelly_args,       \* arguments of the last KellyCriterion call (None before)
    kelly_result,     \* how that call ended and what it returned
    sim_props,        \* the props handed to the last simulate_parlay call (None before)
    simulated,        \* the sample matrix drawn in that call, one row per simulation
    sim_result,       \* the dictionary that call returned
    sim_call,         \* a simulate_correlated_props call about to be made (None otherwise)
    historical_data,  \* the caller's game-by-game data frame
    correlation_matrix,   \* PropCorrelationEngine.correlation_matrix
    covariance_matrix,    \* PropCorrelationEngine.covariance_matrix
    corr_result,      \* how the last PropCorrelationEngine call ended and what it returned
    train_features,   \* the caller's training frame handed to AdversarialValidator.validate
    test_features,    \* the caller's candidate frame handed to it
    validation_results,   \* the dictionary validate returned (None before)
    eval_args,        \* arguments of the last ModelEvaluator call (None before)
    eval_result       \* what that call returned

vars == <<game_context, last_set, outcome, gen_result, gen_raw, gen_ctx, gen_player,
          app_context, players, projections, parlays, game_script,
          explosive_evals, pc, edge_magnitude, confidence,
          input_context, input_player, validation_error,
          kelly_args, kelly_result, sim_props, simulated, sim_result, sim_call,
          historical_data, correlation_matrix, covariance_matrix, corr_result,
          train_features, test_features, validation_results, eval_args, eval_result>>

engineVars == <<game_context, last_set, outcome, gen_result, gen_raw, gen_ctx, gen_player>>
appVars    == <<app_context, players, projections, parlays, game_script, explosive_evals, pc>>
confVars   == <<edge_magnitude, confidence>>
inputVars  == <<input_context, input_player, validation_error>>
kellyVars  == <<kelly_args, kelly_result>>
simVars    == <<sim_props, simulated, sim_result, sim_call>>
corrVars   == <<historical_data, correlation_matrix, covariance_matrix, corr_result>>
validatorVars == <<train_features, test_features, validation_results>>
evalVars   == <<eval_args, eval_result>>

\* the state of advanced_analytics.py
analyticsVars == <<kellyVars, simVars, corrVars, validatorVars, evalVars>>

\* everything outside the projection engine, the application and the confidence curve
otherVars  == <<inputVars, analyticsVars>>

\* what the methods of one class of advanced_analytics.py leave alone
exceptKelly     == <<engineVars, appVars, confVars, inputVars,
                     simVars, corrVars, validatorVars, evalVars>>
exceptSim       == <<engineVars, appVars, confVars, inputVars,
                     kellyVars, corrVars, validatorVars, evalVars>>
exceptCorr      == <<engineVars, appVars, confVars, inputVars,
                     kellyVars, simVars, validatorVars, evalVars>>
exceptValidator == <<engineVars, appVars, confVars, inputVars,
                     kellyVars, simVars, corrVars, evalVars>>
exceptEval      == <<engineVars, appVars, confVars, inputVars,
                     kellyVars, simVars, corrVars, validatorVars>>

-----------------------------------------------------------------------------
(* Exact rational arithmetic                                               *)

RECURSIVE GCD(_, _)
GCD(a, b) == IF b = 0 THEN a ELSE GCD(b, a % b)

Abs(x) == IF x < 0 THEN -x ELSE x

\* n/d in lowest terms with a positive denominator (d # 0)
Rat(n, d) ==
    LET g == GCD(Abs(n), Abs(d))
        s == IF d < 0 THEN -1 ELSE 1
    IN  [n |-> s * (n \div g), d |-> s * (d \div g)]

RInt(k)    == [n |-> k, d |-> 1]
RAdd(a, b) == Rat(a.n * b.d + b.n * a.d, a.d * b.d)
RSub(a, b) == Rat(a.n * b.d - b.n * a.d, a.d * b.d)
RMul(a, b) ==
    LET g1 == GCD(Abs(a.n), b.d)
        g2 == GCD(Abs(b.n), a.d)
    IN  Rat((a.n \div g1) * (b.n \div g2), (a.d \div g2) * (b.d \div g1))
RDiv(a, b) == RMul(a, Rat(b.d, b.n))
RNeg(a)    == [n |-> -a.n, d |-> a.d]
RAbs(a)    == [n |-> Abs(a.n), d |-> a.d]
RLt(a, b)  == a.n * b.d < b.n * a.d
RLe(a, b)  == a.n * b.d <= b.n * a.d
RMin(a, b) == IF RLe(a, b) THEN a ELSE b
RMax(a, b) == IF RLe(b, a) THEN a ELSE b

\* round(r * scale) to the nearest integer, ties to the even neighbour
RoundScaled(r, scale) ==
    LET x   == RMul(r, RInt(scale))
        q   == x.n \div x.d
        rem == x.n % x.d
    IN  IF 2 * rem < x.d THEN q
        ELSE IF 2 * rem > x.d THEN q + 1
        ELSE IF q % 2 = 0 THEN q ELSE q + 1

-----------------------------------------------------------------------------
(* Config                                                                  *)

LAST_5_WEIGHT             == Rat(65, 100)
SEASON_AVG_WEIGHT         == Rat(35, 100)
ELITE_DEFENSE_THRESHOLD   == <<1, 5>>
ELITE_DEFENSE_DAMPER      == Rat(88, 100)
POOR_DEFENSE_THRESHOLD    == <<28, 32>>
POOR_DEFENSE_BOOST        == Rat(112, 100)
QB_EPA_THRESHOLD          == Rat(20, 100)
QB_EPA_BOOST              == Rat(105, 100)
WR_TARGET_SHARE_THRESHOLD_high == RInt(30)      \* variant: a higher threshold
WR_TARGET_SHARE_THRESHOLD == RInt(28)
WR_VOLUME_FLOOR_BOOST     == Rat(108, 100)
TRAILING_SCRIPT_SPREAD    == 65      \* 6.5 in tenths
LEADING_SCRIPT_SPREAD     == -65     \* -6.5 in tenths
EXPLOSIVE_TOTAL_THRESHOLD == 495     \* 49.5 in tenths
MIN_EDGE_FOR_CONFIDENCE   == RInt(2)
MAX_EDGE_FOR_CONFIDENCE   == RInt(15)

\* enums
QB == "QB"
RB == "RB"
WR == "WR"
TE == "TE"
OVER == "Over"
UNDER == "Under"
TRAILING  == "Trailing Script"
LEADING   == "Leading Script"
EXPLOSIVE == "Explosive Stack"
NEUTRAL   == "Neutral Script"

None == [none |-> TRUE]

Tenths(t) == Rat(t, 10)

-----------------------------------------------------------------------------
(* StandardPredictionStrategy                                              *)

calculate_base_projection(last_5_avg, season_avg) ==
    RAdd(RMul(last_5_avg, LAST_5_WEIGHT), RMul(season_avg, SEASON_AVG_WEIGHT))

\* variant: the upper end of the elite band is excluded
apply_dvoa_modifier_exclusive(value, opponent_rank) ==
    IF ELITE_DEFENSE_THRESHOLD[1] <= opponent_rank /\ opponent_rank < ELITE_DEFENSE_THRESHOLD[2]
    THEN RMul(value, ELITE_DEFENSE_DAMPER)
    ELSE IF POOR_DEFENSE_THRESHOLD[1] <= opponent_rank /\ opponent_rank <= POOR_DEFENSE_THRESHOLD[2]
    THEN RMul(value, POOR_DEFENSE_BOOST)
    ELSE value

apply_dvoa_modifier(value, opponent_rank) ==
    IF ELITE_DEFENSE_THRESHOLD[1] <= opponent_rank /\ opponent_rank <= ELITE_DEFENSE_THRESHOLD[2]
    THEN RMul(value, ELITE_DEFENSE_DAMPER)
    ELSE IF POOR_DEFENSE_THRESHOLD[1] <= opponent_rank /\ opponent_rank <= POOR_DEFENSE_THRESHOLD[2]
    THEN RMul(value, POOR_DEFENSE_BOOST)
    ELSE value

-----------------------------------------------------------------------------
(* PredictionEngine                                                        *)

HasLine(lines, stat) == stat \in DOMAIN lines

\* One entry per _create_projection call of a _project_* method, in call
\* order: the stat type, the unrounded projected value and the market line.
Arg(stat_type, projected, line) ==
    [stat_type |-> stat_type, projected |-> projected, line |-> line]

_project_qb(player, ctx) ==
    LET stats == player.stats
        lines == player.market_lines
        season_pass_avg     == RDiv(stats.passing_yards_season_total, RInt(stats.games_played))
        season_rush_avg     == RDiv(stats.rush_yards_season_total, RInt(stats.games_played))
        season_attempts_avg == RDiv(stats.pass_attempts_season_total, RInt(stats.games_played))
        base_pass     == calculate_base_projection(stats.passing_yards_l5_avg, season_pass_avg)
        dvoa_pass     == apply_dvoa_modifier(base_pass, ctx.opponent_rank)
        adjusted_pass == IF RLt(QB_EPA_THRESHOLD, stats.epa_per_play)
                         THEN RMul(dvoa_pass, QB_EPA_BOOST) ELSE dvoa_pass
        base_rush     == calculate_base_projection(stats.rush_yards_l5_avg, season_rush_avg)
        adjusted_rush == apply_dvoa_modifier(base_rush, ctx.opponent_rank)
        base_attempts == calculate_base_projection(stats.pass_attempts_l5_avg, season_attempts_avg)
        adj_attempts  == IF ctx.spread > TRAILING_SCRIPT_SPREAD
                         THEN RMul(base_attempts, Rat(108, 100))
                         ELSE IF ctx.spread < LEADING_SCRIPT_SPREAD
                         THEN RMul(base_attempts, Rat(92, 100))
                         ELSE base_attempts
    IN  (IF HasLine(lines, "passing_yards")
         THEN <<Arg("Passing Yards", adjusted_pass, lines.passing_yards)>> ELSE <<>>)
        \o (IF HasLine(lines, "rush_yards")
            THEN <<Arg("Rush Yards", adjusted_rush, lines.rush_yards)>> ELSE <<>>)
        \o (IF HasLine(lines, "pass_attempts")
            THEN <<Arg("Pass Attempts", adj_attempts, lines.pass_attempts)>> ELSE <<>>)

_project_rb(player, ctx) ==
    LET stats == player.stats
        lines == player.market_lines
        season_rush_avg     == RDiv(stats.rush_yards_season_total, RInt(stats.games_played))
        season_attempts_avg == RDiv(stats.rush_attempts_season_total, RInt(stats.games_played))
        base_rush == calculate_base_projection(stats.rush_yards_l5_avg, season_rush_avg)
        dvoa_rush == apply_dvoa_modifier(base_rush, ctx.opponent_rank)
        opp_rush  == IF RLt(RInt(70), stats.opportunity_share_pct)
                     THEN RMul(dvoa_rush, Rat(105, 100)) ELSE dvoa_rush
        adjusted_rush == IF ctx.spread < LEADING_SCRIPT_SPREAD
                         THEN RMul(opp_rush, Rat(110, 100))
                         ELSE IF ctx.spread > TRAILING_SCRIPT_SPREAD
                         THEN RMul(opp_rush, Rat(88, 100))
                         ELSE opp_rush
        base_attempts == calculate_base_projection(stats.rush_attempts_l5_avg, season_attempts_avg)
        adj_attempts  == IF ctx.spread < LEADING_SCRIPT_SPREAD
                         THEN RMul(base_attempts, Rat(112, 100))
                         ELSE IF ctx.spread > TRAILING_SCRIPT_SPREAD
                         THEN RMul(base_attempts, Rat(85, 100))
                         ELSE base_attempts
    IN  (IF HasLine(lines, "rush_yards")
         THEN <<Arg("Rush Yards", adjusted_rush, lines.rush_yards)>> ELSE <<>>)
        \o (IF HasLine(lines, "rush_attempts")
            THEN <<Arg("Rush Attempts", adj_attempts, lines.rush_attempts)>> ELSE <<>>)

_project_wr_te(player, ctx) ==
    LET stats == player.stats
        lines == player.market_lines
        season_rec_yards_avg  == RDiv(stats.rec_yards_season_total, RInt(stats.games_played))
        season_receptions_avg == RDiv(stats.receptions_season_total, RInt(stats.games_played))
        base_yards == calculate_base_projection(stats.rec_yards_l5_avg, season_rec_yards_avg)
        dvoa_rec   == apply_dvoa_modifier(base_yards, ctx.opponent_rank)
        adjusted_rec ==
            IF RLt(WR_TARGET_SHARE_THRESHOLD, stats.target_share_pct)
            THEN LET min_projection == RMul(Tenths(lines.rec_yards), Rat(95, 100))
                 IN  RMax(RMul(dvoa_rec, WR_VOLUME_FLOOR_BOOST), min_projection)
            ELSE dvoa_rec
        base_rec == calculate_base_projection(stats.receptions_l5_avg, season_receptions_avg)
        adj_receptions == IF RLt(RInt(25), stats.target_share_pct)
                          THEN RMul(base_rec, Rat(105, 100)) ELSE base_rec
    IN  (IF HasLine(lines, "rec_yards")
         THEN <<Arg("Rec Yards", adjusted_rec, lines.rec_yards)>> ELSE <<>>)
        \o (IF HasLine(lines, "receptions")
            THEN <<Arg("Receptions", adj_receptions, lines.receptions)>> ELSE <<>>)

\* variant: the lower ramp climbs by 20 instead of 15
_calculate_confidence_steep(magnitude) ==
    IF RLt(magnitude, MIN_EDGE_FOR_CONFIDENCE)
    THEN RAdd(RInt(35), RMul(RDiv(magnitude, MIN_EDGE_FOR_CONFIDENCE), RInt(20)))
    ELSE IF RLt(MAX_EDGE_FOR_CONFIDENCE, magnitude)
    THEN RInt(95)
    ELSE LET normalized == RDiv(RSub(magnitude, MIN_EDGE_FOR_CONFIDENCE),
                                RSub(MAX_EDGE_FOR_CONFIDENCE, MIN_EDGE_FOR_CONFIDENCE))
         IN  RAdd(RInt(50), RMul(normalized, RInt(45)))

\* edge_magnitude and the result are rationals (percent, score)
_calculate_confidence(magnitude) ==
    IF RLt(magnitude, MIN_EDGE_FOR_CONFIDENCE)
    THEN RAdd(RInt(35), RMul(RDiv(magnitude, MIN_EDGE_FOR_CONFIDENCE), RInt(15)))
    ELSE IF RLt(MAX_EDGE_FOR_CONFIDENCE, magnitude)
    THEN RInt(95)
    ELSE LET normalized == RDiv(RSub(magnitude, MIN_EDGE_FOR_CONFIDENCE),
                                RSub(MAX_EDGE_FOR_CONFIDENCE, MIN_EDGE_FOR_CONFIDENCE))
         IN  RAdd(RInt(50), RMul(normalized, RInt(45)))

\* variant: the difference is taken relative to the projection
RawEdge_of_projected(projected, line) ==
    IF projected.n = 0 THEN RInt(-100)
    ELSE RMul(RDiv(RSub(projected, Tenths(line)), projected), RInt(100))

\* the unrounded edge of _create_projection (line # 0)
RawEdge(projected, line) ==
    RMul(RDiv(RSub(projected, Tenths(line)), Tenths(line)), RInt(100))

\* precondition: line # 0 (the division raises ZeroDivisionError otherwise)
_create_projection(player, stat_type, projected, line) ==
    LET edge           == RawEdge(projected, line)
        recommendation == IF RLt(Tenths(line), projected) THEN OVER ELSE UNDER
        conf           == _calculate_confidence(RAbs(edge))
    IN  [player_name     |-> player.name,
         position        |-> player.position,
         stat_type       |-> stat_type,
         projected_value |-> RoundScaled(projected, 10),
         market_line     |-> line,
         edge            |-> RoundScaled(edge, 100),
         recommendation  |-> recommendation,
         confidence      |-> RoundScaled(conf, 10)]

\* result of one generate_projections call on an engine whose game_context is ctx
generate_projections(ctx, player) ==
    IF ctx = None
    THEN [outcome |-> "ValueError", projections |-> <<>>, raw |-> <<>>]
    ELSE LET args == IF player.position = QB THEN _project_qb(player, ctx)
                     ELSE IF player.position = RB THEN _project_rb(player, ctx)
                     ELSE IF player.position \in {WR, TE} THEN _project_wr_te(player, ctx)
                     ELSE <<>>
         IN  IF player.stats.games_played = 0 \/ \E i \in 1..Len(args) : args[i].line = 0
             THEN [outcome |-> "ZeroDivisionError", projections |-> <<>>, raw |-> <<>>]
             ELSE [outcome |-> "ok",
                   projections |-> [i \in 1..Len(args) |->
                       _create_projection(player, args[i].stat_type,
                                          args[i].projected, args[i].line)],
                   raw |-> [i \in 1..Len(args) |-> args[i].projected]]

\* variant: a context that is already set is kept
set_game_context_keep(self_game_context, context) ==
    IF self_game_context = None THEN context ELSE self_game_context

\* the new value of self.game_context
set_game_context(self_game_context, context) == context

-----------------------------------------------------------------------------
(* CorrelationEngine                                                       *)

\* variant: the total is tested before the spread
determine_game_script_total_first(ctx) ==
    IF ctx.total > EXPLOSIVE_TOTAL_THRESHOLD THEN EXPLOSIVE
    ELSE IF ctx.spread > TRAILING_SCRIPT_SPREAD THEN TRAILING
    ELSE IF ctx.spread < LEADING_SCRIPT_SPREAD THEN LEADING
    ELSE NEUTRAL

\* variant: a spread on the threshold already decides the script
determine_game_script_inclusive(ctx) ==
    IF ctx.spread >= TRAILING_SCRIPT_SPREAD THEN TRAILING
    ELSE IF ctx.spread <= LEADING_SCRIPT_SPREAD THEN LEADING
    ELSE IF ctx.total > EXPLOSIVE_TOTAL_THRESHOLD THEN EXPLOSIVE
    ELSE NEUTRAL

determine_game_script(ctx) ==
    IF ctx.spread > TRAILING_SCRIPT_SPREAD THEN TRAILING
    ELSE IF ctx.spread < LEADING_SCRIPT_SPREAD THEN LEADING
    ELSE IF ctx.total > EXPLOSIVE_TOTAL_THRESHOLD THEN EXPLOSIVE
    ELSE NEUTRAL

\* variant: the stat type alone decides
_find_projection_any_position(projs, position, stat_type) ==
    LET hits == {i \in 1..Len(projs) : projs[i].stat_type = stat_type}
    IN  IF hits = {} THEN None
        ELSE projs[CHOOSE i \in hits : \A j \in hits : i <= j]

\* first matching projection, or None
_find_projection(projs, position, stat_type) ==
    LET hits == {i \in 1..Len(projs) :
                    projs[i].position = position /\ projs[i].stat_type = stat_type}
    IN  IF hits = {} THEN None
        ELSE projs[CHOOSE i \in hits : \A j \in hits : i <= j]

\* Python's max(seq, key): the first element whose key is maximal
MaxByAbsEdge(seq) ==
    seq[CHOOSE i \in 1..Len(seq) :
            /\ \A j \in 1..Len(seq) : Abs(seq[j].edge) <= Abs(seq[i].edge)
            /\ \A j \in 1..(i - 1) : Abs(seq[j].edge) < Abs(seq[i].edge)]

\* variant: the preferred direction is ignored
_find_best_projection_any_direction(projs, positions, stat_type, preferred_direction) ==
    LET IsCandidate(p) == p.position \in positions /\ p.stat_type = stat_type
        candidates == SelectSeq(projs, IsCandidate)
    IN  IF candidates = <<>> THEN None ELSE MaxByAbsEdge(candidates)

_find_best_projection(projs, positions, stat_type, preferred_direction) ==
    LET IsCandidate(p) == p.position \in positions /\ p.stat_type = stat_type
        candidates == SelectSeq(projs, IsCandidate)
        IsMatching(c) == c.recommendation = preferred_direction
        matching == SelectSeq(candidates, IsMatching)
    IN  IF candidates = <<>> THEN None
        ELSE IF matching # <<>> THEN MaxByAbsEdge(matching)
        ELSE MaxByAbsEdge(candidates)

ParlayLeg(player_name, stat_type, line, direction, edge) ==
    [player_name |-> player_name, stat_type |-> stat_type, line |-> line,
     direction |-> direction, edge |-> edge]

RECURSIVE SumEdge(_)
SumEdge(legs) == IF legs = <<>> THEN 0 ELSE Head(legs).edge + SumEdge(Tail(legs))

\* leg edges are hundredths of a percent; the result is a rational score
_calculate_parlay_confidence(legs) ==
    IF legs = <<>> THEN RInt(0)
    ELSE LET total_edge    == Rat(SumEdge(legs), 100)
             avg_edge      == RDiv(total_edge, RInt(Len(legs)))
             base          == RAdd(RInt(50), RMin(RMul(avg_edge, RInt(2)), RInt(30)))
             positive_legs == Cardinality({i \in 1..Len(legs) : legs[i].edge > 0})
             bonus         == positive_legs * 5
         IN  RMin(RAdd(base, RInt(bonus)), RInt(95))

\* a leg whose direction the template fixes to Over
OverLeg(proj, stat_type) ==
    ParlayLeg(proj.player_name, stat_type, proj.market_line, OVER,
              IF proj.recommendation = OVER THEN proj.edge ELSE -proj.edge)

\* variant: the leg follows the projection's own recommendation
UnderLeg_own_recommendation(proj, stat_type) ==
    ParlayLeg(proj.player_name, stat_type, proj.market_line, proj.recommendation,
              proj.edge)

\* a leg whose direction the template fixes to Under
UnderLeg(proj, stat_type) ==
    ParlayLeg(proj.player_name, stat_type, proj.market_line, UNDER,
              IF proj.recommendation = OVER THEN -proj.edge ELSE proj.edge)

\* variant: a single leg is enough
EnoughLegs_one(legs) == Len(legs) >= 1

\* `if len(legs) >= 2` of the three builders
EnoughLegs(legs) == Len(legs) >= 2

\* variant: two legs already count as strong
StrengthLabel_two(legs) == IF Len(legs) >= 2 THEN "Strong" ELSE "Moderate"

\* `"Strong" if len(legs) == 3 else "Moderate"` of the trailing and leading builders
StrengthLabel(legs) == IF Len(legs) = 3 THEN "Strong" ELSE "Moderate"

CorrelatedParlay(script, legs, strength) ==
    [game_script |-> script, legs |-> legs,
     combined_confidence |-> _calculate_parlay_confidence(legs),
     correlation_strength |-> strength]

_build_trailing_parlay(projs) ==
    LET qb_attempts == _find_projection(projs, QB, "Pass Attempts")
        wr_rec      == _find_best_projection(projs, {WR, TE}, "Receptions", OVER)
        rb_rush     == _find_projection(projs, RB, "Rush Yards")
        legs == (IF qb_attempts # None THEN <<OverLeg(qb_attempts, "Pass Attempts")>> ELSE <<>>)
                \o (IF wr_rec # None THEN <<OverLeg(wr_rec, "Receptions")>> ELSE <<>>)
                \o (IF rb_rush # None THEN <<UnderLeg(rb_rush, "Rush Yards")>> ELSE <<>>)
    IN  IF EnoughLegs(legs)
        THEN CorrelatedParlay(TRAILING, legs, StrengthLabel(legs))
        ELSE None

_build_leading_parlay(projs) ==
    LET rb_attempts == _find_projection(projs, RB, "Rush Attempts")
        rb_yards    == _find_projection(projs, RB, "Rush Yards")
        qb_attempts == _find_projection(projs, QB, "Pass Attempts")
        legs == (IF rb_attempts # None THEN <<OverLeg(rb_attempts, "Rush Attempts")>> ELSE <<>>)
                \o (IF rb_yards # None THEN <<OverLeg(rb_yards, "Rush Yards")>> ELSE <<>>)
                \o (IF qb_attempts # None THEN <<UnderLeg(qb_attempts, "Pass Attempts")>> ELSE <<>>)
    IN  IF EnoughLegs(legs)
        THEN CorrelatedParlay(LEADING, legs, StrengthLabel(legs))
        ELSE None

_build_explosive_parlay(projs) ==
    LET qb_yards == _find_projection(projs, QB, "Passing Yards")
        wr_yards == _find_best_projection(projs, {WR, TE}, "Rec Yards", OVER)
        legs == (IF qb_yards # None THEN <<OverLeg(qb_yards, "Passing Yards")>> ELSE <<>>)
                \o (IF wr_yards # None THEN <<OverLeg(wr_yards, "Rec Yards")>> ELSE <<>>)
    IN  IF EnoughLegs(legs)
        THEN CorrelatedParlay(EXPLOSIVE, legs, "Strong")
        ELSE None

\* 47 in tenths: the total above which the explosive template is also tried
ALSO_EXPLOSIVE_TOTAL == 470

\* variant: the primary script is not looked at
AlsoExplosive_any_script(script, ctx) == ctx.total > ALSO_EXPLOSIVE_TOTAL

\* the guard of the second explosive-template evaluation
AlsoExplosive(script, ctx) == script # EXPLOSIVE /\ ctx.total > ALSO_EXPLOSIVE_TOTAL

Emit(parlay) == IF parlay # None THEN <<parlay>> ELSE <<>>

\* the returned list, with the script and the number of explosive-template
\* evaluations of the call
find_correlated_parlays(ctx, projs) ==
    LET script  == determine_game_script(ctx)
        primary == IF script = TRAILING THEN Emit(_build_trailing_parlay(projs))
                   ELSE IF script = LEADING THEN Emit(_build_leading_parlay(projs))
                   ELSE IF script = EXPLOSIVE THEN Emit(_build_explosive_parlay(projs))
                   ELSE <<>>
        also    == AlsoExplosive(script, ctx)
    IN  [game_script     |-> script,
         parlays         |-> primary \o
                             (IF also THEN Emit(_build_explosive_parlay(projs)) ELSE <<>>),
         explosive_evals |-> (IF script = EXPLOSIVE THEN 1 ELSE 0) + (IF also THEN 1 ELSE 0)]

-----------------------------------------------------------------------------
(* Inputs: game contexts and player records that pass validation           *)

MaxPlayers == 3

Spreads == {-70, -65, 65, 100}          \* tenths of a point
Totals  == {470, 475, 495, 500}         \* tenths of a point
Ranks   == {5, 6, 28}

GameContext(spread, total, opponent_rank) ==
    [spread |-> spread, total |-> total, opponent_rank |-> opponent_rank]

Contexts == {GameContext(s, t, r) : s \in Spreads, t \in Totals, r \in Ranks}

QBStats(pass_l5, pass_total, rush_l5, rush_total, epa, att_l5, att_total, games) ==
    [passing_yards_l5_avg |-> RInt(pass_l5), passing_yards_season_total |-> RInt(pass_total),
     rush_yards_l5_avg |-> RInt(rush_l5), rush_yards_season_total |-> RInt(rush_total),
     epa_per_play |-> epa,
     pass_attempts_l5_avg |-> RInt(att_l5), pass_attempts_season_total |-> RInt(att_total),
     games_played |-> games]

RBStats(rush_l5, rush_total, share, att_l5, att_total, games) ==
    [rush_yards_l5_avg |-> RInt(rush_l5), rush_yards_season_total |-> RInt(rush_total),
     opportunity_share_pct |-> RInt(share),
     rush_attempts_l5_avg |-> RInt(att_l5), rush_attempts_season_total |-> RInt(att_total),
     games_played |-> games]

WRTEStats(yards_l5, yards_total, share, rec_l5, rec_total, games) ==
    [rec_yards_l5_avg |-> RInt(yards_l5), rec_yards_season_total |-> RInt(yards_total),
     target_share_pct |-> RInt(share),
     receptions_l5_avg |-> RInt(rec_l5), receptions_season_total |-> RInt(rec_total),
     games_played |-> games]

PlayerData(name, position, stats, market_lines) ==
    [name |-> name, position |-> position, stats |-> stats, market_lines |-> market_lines]

\* market lines are tenths; an absent line (None) is an absent field
Roster ==
    { PlayerData("Qb One", QB,
                 QBStats(280, 4250, 20, 340, Rat(10, 100), 35, 595, 17),
                 [passing_yards |-> 2455, rush_yards |-> 185, pass_attempts |-> 345]),
      PlayerData("Qb Two", QB,
                 QBStats(250, 4250, 10, 170, Rat(25, 100), 30, 510, 17),
                 [pass_attempts |-> 155]),
      PlayerData("Qb Three", QB,
                 QBStats(250, 4250, 10, 170, Rat(25, 100), 30, 510, 17),
                 [pass_attempts |-> 0]),
      PlayerData("Rb One", RB,
                 RBStats(80, 1360, 75, 18, 306, 17),
                 [rush_yards |-> 705, rush_attempts |-> 175]),
      PlayerData("Rb Two", RB,
                 RBStats(100, 1700, 50, 20, 340, 17),
                 [rush_yards |-> 405]),
      PlayerData("Wr One", WR,
                 WRTEStats(80, 1360, 30, 6, 102, 17),
                 [rec_yards |-> 755, receptions |-> 55]),
      PlayerData("Wr Two", WR,
                 WRTEStats(60, 1020, 20, 5, 85, 17),
                 [rec_yards |-> 585, receptions |-> 45]),
      PlayerData("Te One", TE,
                 WRTEStats(40, 680, 15, 3, 51, 17),
                 [rec_yards |-> 505, receptions |-> 55]) }

\* further players: a passer with a passing-yards line and EPA above the
\* threshold, and receivers on both sides of the target-share threshold
\* whose receiving-yards line is far above their averages
ExtraRoster ==
    { PlayerData("Qb Four", QB,
                 QBStats(250, 4250, 10, 170, Rat(25, 100), 30, 510, 17),
                 [passing_yards |-> 2455, pass_attempts |-> 315]),
      PlayerData("Wr Three", WR,
                 WRTEStats(60, 1020, 30, 5, 85, 17),
                 [rec_yards |-> 905, receptions |-> 45]),
      PlayerData("Wr Four", WR,
                 WRTEStats(60, 1020, 28, 5, 85, 17),
                 [rec_yards |-> 905, receptions |-> 45]),
      PlayerData("Te Two", TE,
                 WRTEStats(40, 680, 35, 3, 51, 17),
                 [rec_yards |-> 505]),
      PlayerData("Wr Five", WR,
                 WRTEStats(60, 1020, 20, 5, 85, 17),
                 [rec_yards |-> 605, receptions |-> 0]) }

\* the state holds a player record by its name
Players == {p.name : p \in Roster}
PlayerNamed(name) == CHOOSE p \in Roster \cup ExtraRoster : p.name = name

-----------------------------------------------------------------------------
(* Construction-time validation (pydantic Field(ge=..., le=...))           *)

\* variant: only the upper bound is enforced
OutOfRange_upper_only(v, ge, le) == v > le

\* an integer or tenths-scaled field violates Field(ge, le)
OutOfRange(v, ge, le) == v < ge \/ v > le

\* a float field (rational) violates Field(ge, le)
ROutOfRange(v, ge, le) == RLt(v, ge) \/ RLt(le, v)

\* the field names of a ValidationError, in declaration order
FailedFields(checks) ==
    LET bad == SelectSeq(checks, LAMBDA c : c[2])
    IN  [i \in 1..Len(bad) |-> bad[i][1]]

\* GameContext(**raw): spread, total and implied_team_total in tenths
GameContext_errors(raw) ==
    FailedFields(<< <<"spread",             OutOfRange(raw.spread, -300, 300)>>,
                    <<"total",              OutOfRange(raw.total, 300, 700)>>,
                    <<"implied_team_total", OutOfRange(raw.implied_team_total, 100, 450)>>,
                    <<"opponent_rank",      OutOfRange(raw.opponent_rank, 1, 32)>> >>)

QBStats_errors(raw) ==
    FailedFields(<< <<"passing_yards_l5_avg",
                      ROutOfRange(raw.passing_yards_l5_avg, RInt(0), RInt(600))>>,
                    <<"passing_yards_season_total",
                      ROutOfRange(raw.passing_yards_season_total, RInt(0), RInt(6000))>>,
                    <<"rush_yards_l5_avg",
                      ROutOfRange(raw.rush_yards_l5_avg, RInt(-20), RInt(150))>>,
                    <<"rush_yards_season_total",
                      ROutOfRange(raw.rush_yards_season_total, RInt(-100), RInt(1500))>>,
                    <<"epa_per_play",
                      ROutOfRange(raw.epa_per_play, Rat(-5, 10), Rat(5, 10))>>,
                    <<"pass_attempts_l5_avg",
                      ROutOfRange(raw.pass_attempts_l5_avg, RInt(15), RInt(60))>>,
                    <<"pass_attempts_season_total",
                      ROutOfRange(raw.pass_attempts_season_total, RInt(100), RInt(800))>>,
                    <<"games_played", OutOfRange(raw.games_played, 1, 17)>> >>)

RBStats_errors(raw) ==
    FailedFields(<< <<"rush_yards_l5_avg",
                      ROutOfRange(raw.rush_yards_l5_avg, RInt(0), RInt(250))>>,
                    <<"rush_yards_season_total",
                      ROutOfRange(raw.rush_yards_season_total, RInt(0), RInt(2500))>>,
                    <<"opportunity_share_pct",
                      ROutOfRange(raw.opportunity_share_pct, RInt(0), RInt(100))>>,
                    <<"rush_attempts_l5_avg",
                      ROutOfRange(raw.rush_attempts_l5_avg, RInt(0), RInt(35))>>,
                    <<"rush_attempts_season_total",
                      ROutOfRange(raw.rush_attempts_season_total, RInt(0), RInt(400))>>,
                    <<"games_played", OutOfRange(raw.games_played, 1, 17)>> >>)

WRTEStats_errors(raw) ==
    FailedFields(<< <<"rec_yards_l5_avg",
                      ROutOfRange(raw.rec_yards_l5_avg, RInt(0), RInt(250))>>,
                    <<"rec_yards_season_total",
                      ROutOfRange(raw.rec_yards_season_total, RInt(0), RInt(2000))>>,
                    <<"target_share_pct",
                      ROutOfRange(raw.target_share_pct, RInt(0), RInt(50))>>,
                    <<"receptions_l5_avg",
                      ROutOfRange(raw.receptions_l5_avg, RInt(0), RInt(18))>>,
                    <<"receptions_season_total",
                      ROutOfRange(raw.receptions_season_total, RInt(0), RInt(200))>>,
                    <<"games_played", OutOfRange(raw.games_played, 1, 17)>> >>)

\* MarketLines(**raw): the six lines are float | None without a bound
MarketLines_errors(raw) == FailedFields(<<>>)

\* the stats constructor get_player_data calls for the position
Stats_errors(position, raw) ==
    IF position = QB THEN QBStats_errors(raw)
    ELSE IF position = RB THEN RBStats_errors(raw)
    ELSE WRTEStats_errors(raw)

\* what the user types: values on both sides of every bound of the context
RawSpreads == {-305, 0}
RawTotals  == {450, 705}
RawImplied == {225}
RawRanks   == {0, 1, 5, 32, 33}
RawGames   == {0, 1, 17, 18}

RawContexts ==
    {[spread |-> s, total |-> t, implied_team_total |-> i, opponent_rank |-> r] :
        s \in RawSpreads, t \in RawTotals, i \in RawImplied, r \in RawRanks}

\* the players whose figures are typed in, with any games-played count
InputNames == {"Qb One", "Rb One", "Wr One"}

RawPlayer(name, games) ==
    [PlayerNamed(name) EXCEPT !.stats.games_played = games]

-----------------------------------------------------------------------------
(* The engine driven directly through its interface                        *)

EngineIdle ==
    /\ outcome = "none" /\ gen_result = <<>> /\ gen_raw = <<>>
    /\ gen_ctx = None /\ gen_player = "none"

AppIdle ==
    /\ app_context = None /\ players = <<>> /\ projections = <<>> /\ parlays = <<>>
    /\ game_script = "none" /\ explosive_evals = 0 /\ pc = "idle"

ConfIdle == edge_magnitude = 0 /\ confidence = None

NoError == [source |-> "none", fields |-> <<>>, input |-> None]

InputIdle == input_context = None /\ input_player = None /\ validation_error = NoError

KellyIdle == kelly_args = None /\ kelly_result = None

SimIdle == sim_props = None /\ simulated = <<>> /\ sim_result = None /\ sim_call = None

CorrIdle ==
    /\ historical_data = None /\ correlation_matrix = None /\ covariance_matrix = None
    /\ corr_result = None

ValidatorIdle == train_features = None /\ test_features = None /\ validation_results = None

EvalIdle == eval_args = None /\ eval_result = None

AnalyticsIdle == KellyIdle /\ SimIdle /\ CorrIdle /\ ValidatorIdle /\ EvalIdle

OtherIdle == InputIdle /\ AnalyticsIdle

\* PredictionEngine(game_context = c), c possibly None
Init ==
    /\ game_context \in Contexts \cup {None}
    /\ last_set = game_context
    /\ EngineIdle /\ AppIdle /\ ConfIdle /\ OtherIdle

SetGameContext(context) ==
    /\ game_context' = set_game_context(game_context, context)
    /\ last_set' = context
    /\ UNCHANGED <<outcome, gen_result, gen_raw, gen_ctx, gen_player>>
    /\ UNCHANGED appVars /\ UNCHANGED confVars /\ UNCHANGED otherVars

GenerateProjections(player) ==
    \E r \in {generate_projections(game_context, PlayerNamed(player))} :
        /\ outcome' = r.outcome
        /\ gen_result' = r.projections
        /\ gen_raw' = r.raw
        /\ gen_ctx' = last_set
        /\ gen_player' = player
        /\ UNCHANGED <<game_context, last_set>>
        /\ UNCHANGED appVars /\ UNCHANGED confVars /\ UNCHANGED otherVars

Next ==
    \/ \E c \in Contexts : SetGameContext(c)
    \/ \E p \in Players : GenerateProjections(p)

Spec == Init /\ [][Next]_vars

-----------------------------------------------------------------------------
(* NFLAnalyticsApp: the review loop and _run_analysis                      *)

InitApp ==
    /\ game_context = None /\ last_set = None /\ EngineIdle
    /\ app_context \in Contexts
    /\ players = <<>> /\ projections = <<>> /\ parlays = <<>>
    /\ game_script = "none" /\ explosive_evals = 0
    /\ pc = "review"
    /\ ConfIdle /\ OtherIdle

\* review loop, choice G
EditGameContext(context) ==
    /\ pc = "review"
    /\ context # app_context
    /\ app_context' = context
    /\ UNCHANGED <<players, projections, parlays, game_script, explosive_evals, pc>>
    /\ UNCHANGED engineVars /\ UNCHANGED confVars /\ UNCHANGED otherVars

\* review loop, choice A
AddPlayer(player) ==
    /\ pc = "review"
    /\ Len(players) < MaxPlayers
    /\ players' = Append(players, player)
    /\ UNCHANGED <<app_context, projections, parlays, game_script, explosive_evals, pc>>
    /\ UNCHANGED engineVars /\ UNCHANGED confVars /\ UNCHANGED otherVars

RECURSIVE Concat(_)
Concat(seqs) == IF seqs = <<>> THEN <<>> ELSE Head(seqs) \o Concat(Tail(seqs))

\* the generate_projections loop of _run_analysis: the calls made, in order,
\* up to and including the first one that raises
RECURSIVE RunLoop(_, _)
RunLoopFrom(call, ctx, rest) ==
    IF call.outcome # "ok" THEN <<call>> ELSE <<call>> \o RunLoop(ctx, rest)

RunLoop(ctx, names) ==
    IF names = <<>> THEN <<>>
    ELSE RunLoopFrom(generate_projections(ctx, PlayerNamed(Head(names))), ctx, Tail(names))

\* variant: the list of the previous run is kept and extended
RunStartProjections_kept(previous) == previous

\* self.projections = [] at the start of every run
RunStartProjections(previous) == <<>>

\* review loop, choice R: the whole of _run_analysis
RunAnalysis ==
    /\ pc = "review"
    /\ \E calls \in {RunLoop(set_game_context(game_context, app_context), players)} :
         LET last == Len(calls)
             ok   == last = 0 \/ calls[last].outcome = "ok"
             all  == RunStartProjections(projections)
                        \o Concat([i \in 1..last |-> calls[i].projections])
         IN  /\ game_context' = set_game_context(game_context, app_context)
             /\ last_set' = app_context
             /\ projections' = all
             /\ IF last = 0
                THEN UNCHANGED <<outcome, gen_result, gen_raw, gen_ctx, gen_player>>
                ELSE /\ outcome' = calls[last].outcome
                     /\ gen_result' = calls[last].projections
                     /\ gen_raw' = calls[last].raw
                     /\ gen_ctx' = app_context
                     /\ gen_player' = players[last]
             /\ IF ok
                THEN \E found \in {find_correlated_parlays(app_context, all)} :
                       /\ parlays' = found.parlays
                       /\ game_script' = found.game_script
                       /\ explosive_evals' = found.explosive_evals
                       /\ pc' = "done"
                ELSE /\ UNCHANGED <<parlays, game_script, explosive_evals>>
                     /\ pc' = "failed"
    /\ UNCHANGED <<app_context, players>>
    /\ UNCHANGED confVars /\ UNCHANGED otherVars

NextApp ==
    \/ \E c \in Contexts : EditGameContext(c)
    \/ \E p \in Players : AddPlayer(p)
    \/ RunAnalysis

SpecApp == InitApp /\ [][NextApp]_vars

\* the review loop with every choice, entered again after a run
ReviewContexts == {GameContext(100, 470, 5), GameContext(-70, 500, 28)}
ReviewPlayers  == {"Qb One", "Qb Two", "Rb One"}

InitReview ==
    /\ game_context = None /\ last_set = None /\ EngineIdle
    /\ app_context \in ReviewContexts
    /\ players = <<>> /\ projections = <<>> /\ parlays = <<>>
    /\ game_script = "none" /\ explosive_evals = 0
    /\ pc = "review"
    /\ ConfIdle /\ OtherIdle

\* review loop, choice D: self.players.pop(idx)
DeletePlayer(idx) ==
    /\ pc = "review"
    /\ idx \in 1..Len(players)
    /\ players' = SubSeq(players, 1, idx - 1) \o SubSeq(players, idx + 1, Len(players))
    /\ UNCHANGED <<app_context, projections, parlays, game_script, explosive_evals, pc>>
    /\ UNCHANGED engineVars /\ UNCHANGED confVars /\ UNCHANGED otherVars

\* review loop, a player's number: the record at idx gets the stats and lines
\* typed in, which make it another record of the same position
EditPlayer(idx, player) ==
    /\ pc = "review"
    /\ idx \in 1..Len(players)
    /\ player # players[idx]
    /\ PlayerNamed(player).position = PlayerNamed(players[idx]).position
    /\ players' = [players EXCEPT ![idx] = player]
    /\ UNCHANGED <<app_context, projections, parlays, game_script, explosive_evals, pc>>
    /\ UNCHANGED engineVars /\ UNCHANGED confVars /\ UNCHANGED otherVars

\* "Would you like to edit data and re-run analysis?" answered yes
ReviewAgain ==
    /\ pc = "done"
    /\ pc' = "review"
    /\ UNCHANGED <<app_context, players, projections, parlays, game_script, explosive_evals>>
    /\ UNCHANGED engineVars /\ UNCHANGED confVars /\ UNCHANGED otherVars

NextReview ==
    \/ \E c \in ReviewContexts : EditGameContext(c)
    \/ \E p \in ReviewPlayers : AddPlayer(p)
    \/ \E idx \in 1..MaxPlayers : DeletePlayer(idx)
    \/ \E idx \in 1..MaxPlayers, p \in ReviewPlayers : EditPlayer(idx, p)
    \/ RunAnalysis
    \/ ReviewAgain

SpecReview == InitReview /\ [][NextReview]_vars

-----------------------------------------------------------------------------
(* _calculate_confidence over a rising edge magnitude                      *)

MaxEdge == 1700     \* hundredths of a percent
Steps   == {1, 7, 50, 200}

InitConfidence ==
    /\ game_context = None /\ last_set = None /\ EngineIdle /\ AppIdle /\ OtherIdle
    /\ edge_magnitude = 0
    /\ confidence = _calculate_confidence(Rat(0, 100))

CalculateConfidence(step) ==
    /\ edge_magnitude + step <= MaxEdge
    /\ edge_magnitude' = edge_magnitude + step
    /\ confidence' = _calculate_confidence(Rat(edge_magnitude + step, 100))
    /\ UNCHANGED engineVars /\ UNCHANGED appVars /\ UNCHANGED otherVars

NextConfidence == \E step \in Steps : CalculateConfidence(step)

SpecConfidence == InitConfidence /\ [][NextConfidence]_vars

-----------------------------------------------------------------------------
(* InputHandler: objects are built from typed values, then analysed        *)

InitInput ==
    /\ game_context = None /\ last_set = None /\ EngineIdle /\ AppIdle /\ ConfIdle
    /\ OtherIdle

\* one pass of the while loop of get_game_context; the loop is left only
\* when the constructor succeeds
GetGameContext(raw) ==
    /\ \E errs \in {GameContext_errors(raw)} :
         IF errs = <<>>
         THEN /\ input_context' = GameContext(raw.spread, raw.total, raw.opponent_rank)
              /\ validation_error' = NoError
         ELSE /\ validation_error' =
                    [source |-> "get_game_context", fields |-> errs, input |-> raw]
              /\ UNCHANGED input_context
    /\ UNCHANGED input_player
    /\ UNCHANGED engineVars /\ UNCHANGED appVars /\ UNCHANGED confVars
    /\ UNCHANGED analyticsVars

\* get_player_data: None is returned when a constructor raises
GetPlayerData(name, games) ==
    /\ validation_error.source # "get_game_context"
    /\ \E raw \in {RawPlayer(name, games)} :
       \E errs \in {Stats_errors(raw.position, raw.stats)} :
         IF errs = <<>>
         THEN /\ input_player' = raw
              /\ validation_error' = NoError
         ELSE /\ validation_error' =
                    [source |-> "get_player_data", fields |-> errs, input |-> raw.stats]
              /\ UNCHANGED input_player
    /\ UNCHANGED input_context
    /\ UNCHANGED engineVars /\ UNCHANGED appVars /\ UNCHANGED confVars
    /\ UNCHANGED analyticsVars

\* _run_analysis on the context and the player entered last
AnalyseInput ==
    /\ validation_error.source # "get_game_context"
    /\ input_context # None /\ input_player # None
    /\ \E r \in {generate_projections(input_context, input_player)} :
         /\ game_context' = set_game_context(game_context, input_context)
         /\ last_set' = input_context
         /\ outcome' = r.outcome
         /\ gen_result' = r.projections
         /\ gen_raw' = r.raw
         /\ gen_ctx' = input_context
         /\ gen_player' = input_player.name
    /\ UNCHANGED inputVars
    /\ UNCHANGED appVars /\ UNCHANGED confVars
    /\ UNCHANGED analyticsVars

NextInput ==
    \/ \E raw \in RawContexts : GetGameContext(raw)
    \/ \E name \in InputNames, games \in RawGames : GetPlayerData(name, games)
    \/ AnalyseInput

SpecInput == InitInput /\ [][NextInput]_vars

-----------------------------------------------------------------------------
(* The engine over every band of opponent rank and every position          *)

ProjectRanks   == {1, 5, 6, 16, 27, 28, 32}
ProjectSpreads == {-70, 0, 100}

ProjectContexts == {GameContext(s, 450, r) : s \in ProjectSpreads, r \in ProjectRanks}

ProjectPlayers ==
    {"Qb One", "Qb Four", "Rb One", "Rb Two", "Wr One", "Wr Two", "Wr Three", "Wr Four",
     "Wr Five", "Te One", "Te Two"}

InitProject ==
    /\ game_context = None /\ last_set = None
    /\ EngineIdle /\ AppIdle /\ ConfIdle /\ OtherIdle

NextProject ==
    \/ \E c \in ProjectContexts : SetGameContext(c)
    \/ \E p \in ProjectPlayers : GenerateProjections(p)

SpecProject == InitProject /\ [][NextProject]_vars

-----------------------------------------------------------------------------
(* advanced_analytics.py: KellyCriterion                                   *)

KELLY_CAP == Rat(20, 100)

\* variant: the stake is not capped
calculate_kelly_fraction_uncapped(true_probability, decimal_odds, fractional_kelly) ==
    IF ~(RLt(RInt(0), true_probability) /\ RLt(true_probability, RInt(1)))
    THEN [outcome |-> "ValueError", value |-> None]
    ELSE IF RLe(decimal_odds, RInt(1))
    THEN [outcome |-> "ValueError", value |-> None]
    ELSE LET b == RSub(decimal_odds, RInt(1))
             p == true_probability
             q == RSub(RInt(1), p)
             kelly_full == RDiv(RSub(RMul(b, p), q), b)
         IN  IF RLe(kelly_full, RInt(0))
             THEN [outcome |-> "ok", value |-> RInt(0)]
             ELSE [outcome |-> "ok", value |-> RMul(kelly_full, fractional_kelly)]

calculate_kelly_fraction(true_probability, decimal_odds, fractional_kelly) ==
    IF ~(RLt(RInt(0), true_probability) /\ RLt(true_probability, RInt(1)))
    THEN [outcome |-> "ValueError", value |-> None]
    ELSE IF RLe(decimal_odds, RInt(1))
    THEN [outcome |-> "ValueError", value |-> None]
    ELSE LET b == RSub(decimal_odds, RInt(1))
             p == true_probability
             q == RSub(RInt(1), p)
             kelly_full == RDiv(RSub(RMul(b, p), q), b)
         IN  IF RLe(kelly_full, RInt(0))
             THEN [outcome |-> "ok", value |-> RInt(0)]
             ELSE [outcome |-> "ok",
                   value |-> RMin(RMul(kelly_full, fractional_kelly), KELLY_CAP)]

\* arguments on both sides of every test of the method
Probabilities == {Rat(0, 1), Rat(1, 10), Rat(1, 2), Rat(11, 21), Rat(6, 10), Rat(9, 10),
                  Rat(1, 1)}
DecimalOdds   == {Rat(1, 1), Rat(3, 2), Rat(191, 100), Rat(2, 1), Rat(3, 1), Rat(11, 1)}
KellyFactors  == {Rat(-1, 4), Rat(1, 4), Rat(1, 2), Rat(1, 1)}

InitKelly ==
    /\ game_context = None /\ last_set = None
    /\ EngineIdle /\ AppIdle /\ ConfIdle /\ OtherIdle

CalculateKellyFraction(true_probability, decimal_odds, fractional_kelly) ==
    /\ kelly_args' = [method |-> "calculate_kelly_fraction",
                      true_probability |-> true_probability,
                      decimal_odds |-> decimal_odds,
                      fractional_kelly |-> fractional_kelly]
    /\ kelly_result' =
           calculate_kelly_fraction(true_probability, decimal_odds, fractional_kelly)
    /\ UNCHANGED exceptKelly

\* (true_probability * stake * decimal_odds) - ((1 - true_probability) * stake)
calculate_expected_value(true_probability, decimal_odds, stake) ==
    LET win_amount  == RMul(stake, decimal_odds)
        loss_amount == stake
    IN  [outcome |-> "ok",
         value |-> RSub(RMul(true_probability, win_amount),
                        RMul(RSub(RInt(1), true_probability), loss_amount))]

\* implied_prob = 1 / decimal_odds is computed and never used
minimum_edge_required(decimal_odds, confidence_std) ==
    IF decimal_odds = RInt(0)
    THEN [outcome |-> "ZeroDivisionError", value |-> None]
    ELSE [outcome |-> "ok", value |-> RMul(RInt(2), confidence_std)]

Stakes         == {Rat(1, 1), Rat(100, 1)}
ConfidenceStds == {Rat(5, 100), Rat(1, 10)}

CalculateExpectedValue(true_probability, decimal_odds, stake) ==
    /\ kelly_args' = [method |-> "calculate_expected_value",
                      true_probability |-> true_probability,
                      decimal_odds |-> decimal_odds,
                      stake |-> stake]
    /\ kelly_result' = calculate_expected_value(true_probability, decimal_odds, stake)
    /\ UNCHANGED exceptKelly

MinimumEdgeRequired(decimal_odds, confidence_std) ==
    /\ kelly_args' = [method |-> "minimum_edge_required",
                      decimal_odds |-> decimal_odds,
                      confidence_std |-> confidence_std]
    /\ kelly_result' = minimum_edge_required(decimal_odds, confidence_std)
    /\ UNCHANGED exceptKelly

NextKelly ==
    \/ \E p \in Probabilities, o \in DecimalOdds, f \in KellyFactors :
          CalculateKellyFraction(p, o, f)
    \/ \E p \in Probabilities, o \in DecimalOdds, k \in Stakes :
          CalculateExpectedValue(p, o, k)
    \/ \E o \in DecimalOdds \cup {RInt(0)}, c \in ConfidenceStds :
          MinimumEdgeRequired(o, c)

SpecKelly == InitKelly /\ [][NextKelly]_vars

-----------------------------------------------------------------------------
(* advanced_analytics.py: MonteCarloSimulator.simulate_parlay              *)

NSimulations == 2       \* self.n_simulations
MaxLegs      == 2       \* props per parlay

\* simulated > lines, one leg of one draw
LegHit(value, line) == value > line

\* np.mean of a boolean vector over the draws
FractionOf(hits, n) == Rat(Cardinality(hits), n)

RECURSIVE Product(_)
Product(seq) == IF seq = <<>> THEN RInt(1) ELSE RMul(Head(seq), Product(Tail(seq)))

\* variant: a draw equal to the line counts for the leg's own probability
simulate_parlay_hit_on_line(props, matrix) ==
    LET n_props == Len(props)
        draws   == 1..Len(matrix)
        all_legs_hit == {i \in draws : \A j \in 1..n_props : LegHit(matrix[i][j], props[j].line)}
        parlay_probability == FractionOf(all_legs_hit, Len(matrix))
        individual_probs ==
            [j \in 1..n_props |->
                FractionOf({i \in draws : matrix[i][j] >= props[j].line}, Len(matrix))]
        independent_prob == Product(individual_probs)
    IN  [true_probability         |-> parlay_probability,
         independent_probability  |-> independent_prob,
         correlation_advantage    |-> RSub(parlay_probability, independent_prob),
         individual_probabilities |-> individual_probs]

\* the dictionary returned for the sample matrix simulate_correlated_props drew
simulate_parlay(props, matrix) ==
    LET n_props == Len(props)
        draws   == 1..Len(matrix)
        all_legs_hit == {i \in draws : \A j \in 1..n_props : LegHit(matrix[i][j], props[j].line)}
        parlay_probability == FractionOf(all_legs_hit, Len(matrix))
        individual_probs ==
            [j \in 1..n_props |->
                FractionOf({i \in draws : LegHit(matrix[i][j], props[j].line)}, Len(matrix))]
        independent_prob == Product(individual_probs)
    IN  [true_probability         |-> parlay_probability,
         independent_probability  |-> independent_prob,
         correlation_advantage    |-> RSub(parlay_probability, independent_prob),
         individual_probabilities |-> individual_probs]

\* lines and drawn values in tenths; the draws are clipped at 0
SimLines     == {5, 10}
SampleValues == {0, 10, 20}

PropProjection(line) == [line |-> line]

\* every matrix the generator can hand back for n props
SampleMatrices(n) == [1..NSimulations -> [1..n -> SampleValues]]

\* the props of the call and the matrix its generator is about to draw
InitSim ==
    /\ game_context = None /\ last_set = None
    /\ EngineIdle /\ AppIdle /\ ConfIdle /\ InputIdle
    /\ KellyIdle /\ CorrIdle /\ ValidatorIdle /\ EvalIdle
    /\ \E n \in 1..MaxLegs :
         \E lines \in [1..n -> SimLines] :
           /\ sim_props = [j \in 1..n |-> PropProjection(lines[j])]
           /\ simulated \in SampleMatrices(n)
    /\ sim_result = None
    /\ sim_call = None

SimulateParlay ==
    /\ sim_result = None
    /\ sim_result' = simulate_parlay(sim_props, simulated)
    /\ UNCHANGED <<sim_props, simulated, sim_call>>
    /\ UNCHANGED exceptSim

NextSim == SimulateParlay

SpecSim == InitSim /\ [][NextSim]_vars

(***************************************************************************)
(* MonteCarloSimulator.simulate_correlated_props.  A correlation matrix is *)
(* a sequence of rows of hundredths.  np.linalg.cholesky succeeds exactly  *)
(* on the positive-definite matrices: every pivot of the factorization is  *)
(* positive.  np.linalg.eigh decomposes every real symmetric matrix.  The  *)
(* factor itself is not computed: the values of  correlated * stds + means *)
(* are normal draws and are taken from ScaledValues, below and above 0.    *)
(***************************************************************************)
UnitDiagonal(rho) == <<<<100, rho>>, <<rho, 100>>>>

\* symmetric unit-diagonal matrices: positive definite, singular, indefinite
CorrelationArgs == {<<<<100>>>>} \cup {UnitDiagonal(rho) : rho \in {-150, -100, 0, 60, 100, 150}}

\* the pivots of the factorization of a matrix of one or two rows, times 100
\* and times 10000
Pivots(matrix_arg) ==
    IF Len(matrix_arg) = 1 THEN <<matrix_arg[1][1]>>
    ELSE <<matrix_arg[1][1],
           IF matrix_arg[1][1] > 0
           THEN matrix_arg[2][2] * matrix_arg[1][1] - matrix_arg[2][1] * matrix_arg[2][1]
           ELSE 0>>

\* np.linalg.cholesky(correlation_matrix)
cholesky(matrix_arg) ==
    IF \A k \in 1..Len(matrix_arg) : Pivots(matrix_arg)[k] > 0
    THEN [outcome |-> "ok", L |-> [kind |-> "cholesky", of |-> matrix_arg]]
    ELSE [outcome |-> "LinAlgError", L |-> None]

\* eigenvectors @ diag(sqrt(maximum(eigenvalues, 1e-10)))
eigh_floored(matrix_arg) ==
    [outcome |-> "ok", L |-> [kind |-> "eigh_floored", of |-> matrix_arg]]

\* variant: the failed factorization is not caught
correlation_factor_uncaught(matrix_arg) == cholesky(matrix_arg)

\* try: cholesky  except LinAlgError: eigendecomposition
correlation_factor(matrix_arg) ==
    IF cholesky(matrix_arg).outcome = "LinAlgError"
    THEN eigh_floored(matrix_arg)
    ELSE cholesky(matrix_arg)

\* np.maximum(scaled, 0)
ClipAtZero(scaled) ==
    [i \in 1..Len(scaled) |-> [j \in 1..Len(scaled[i]) |->
        IF scaled[i][j] < 0 THEN 0 ELSE scaled[i][j]]]

simulate_correlated_props(scaled, matrix_arg) ==
    LET factor == correlation_factor(matrix_arg)
    IN  IF factor.outcome = "ok"
        THEN [outcome |-> "ok", L |-> factor.L, value |-> ClipAtZero(scaled)]
        ELSE [outcome |-> factor.outcome, L |-> None, value |-> None]

ScaledValues == {-10, 0, 10}

InitCorrelated ==
    /\ game_context = None /\ last_set = None
    /\ EngineIdle /\ AppIdle /\ ConfIdle /\ InputIdle
    /\ KellyIdle /\ CorrIdle /\ ValidatorIdle /\ EvalIdle
    /\ sim_props = None /\ simulated = <<>> /\ sim_result = None
    /\ \E m \in CorrelationArgs :
         \E lines \in [1..Len(m) -> SimLines] :
           \E scaled \in [1..NSimulations -> [1..Len(m) -> ScaledValues]] :
              sim_call = [props |-> [j \in 1..Len(m) |-> PropProjection(lines[j])],
                          correlation_matrix |-> m,
                          scaled |-> scaled]

\* simulator.simulate_correlated_props(means, stds, correlation_matrix)
SimulateCorrelatedProps ==
    /\ sim_result = None
    /\ \E r \in {simulate_correlated_props(sim_call.scaled, sim_call.correlation_matrix)} :
         /\ sim_result' = [method |-> "simulate_correlated_props",
                           outcome |-> r.outcome, L |-> r.L, value |-> r.value]
         /\ simulated' = IF r.outcome = "ok" THEN r.value ELSE simulated
    /\ UNCHANGED <<sim_props, sim_call>>
    /\ UNCHANGED exceptSim

\* simulator.simulate_parlay(props, correlation_matrix)
SimulateCorrelatedParlay ==
    /\ sim_result = None
    /\ sim_props' = sim_call.props
    /\ \E r \in {simulate_correlated_props(sim_call.scaled, sim_call.correlation_matrix)} :
         /\ sim_result' = [method |-> "simulate_parlay",
                           outcome |-> r.outcome, L |-> r.L,
                           value |-> IF r.outcome = "ok"
                                     THEN simulate_parlay(sim_call.props, r.value)
                                     ELSE None]
         /\ simulated' = IF r.outcome = "ok" THEN r.value ELSE simulated
    /\ UNCHANGED sim_call
    /\ UNCHANGED exceptSim

NextCorrelated ==
    \/ SimulateCorrelatedProps
    \/ SimulateCorrelatedParlay

SpecCorrelated == InitCorrelated /\ [][NextCorrelated]_vars

-----------------------------------------------------------------------------
(* advanced_analytics.py: PropCorrelationEngine                            *)
(* Correlations are hundredths, p-values millionths.  A data frame is its  *)
(* column labels, its number of rows and the Pearson correlation of every  *)
(* two columns; every column has standard deviation 2.  A props list names *)
(* a column at most once.                                                  *)

MIN_SAMPLE_SIZE    == 30         \* PropCorrelationEngine(min_sample_size=30)
SIGNIFICANCE_LEVEL == 50000      \* significance_level=0.05
WARNINGS_FILTER    == "ignore"   \* warnings.filterwarnings('ignore')

NaN      == [nan |-> TRUE, v |-> 0]
Value(v) == [nan |-> FALSE, v |-> v]

Range(seq) == {seq[i] : i \in 1..Len(seq)}

\* Pearson correlation of two columns of a frame
Pearson(frame, a, b) ==
    IF frame.n_rows < 2 THEN NaN
    ELSE IF a = b THEN Value(100)
    ELSE Value(frame.corr[{a, b}])

Covariance(frame, a, b) ==
    IF frame.n_rows < 2 THEN NaN
    ELSE IF a = b THEN Value(400)
    ELSE Value(4 * frame.corr[{a, b}])

\* historical_data[cols].corr(method='pearson') and historical_data[cols].cov()
CorrMatrix(frame, cols) ==
    [columns |-> cols,
     at |-> [pair \in Range(cols) \X Range(cols) |-> Pearson(frame, pair[1], pair[2])]]

CovMatrix(frame, cols) ==
    [columns |-> cols,
     at |-> [pair \in Range(cols) \X Range(cols) |-> Covariance(frame, pair[1], pair[2])]]

\* warnings.warn under the module's filter
Warn(filter) == IF filter = "error" THEN "raised" ELSE "silent"

\* variant: a sample below the minimum is refused
calculate_prop_correlations_strict(frame, props) ==
    LET available_props == SelectSeq(props, LAMBDA p : p \in Range(frame.columns))
        n_samples       == frame.n_rows
    IN  IF Len(available_props) < 2 \/ n_samples < MIN_SAMPLE_SIZE
        THEN [outcome |-> "ValueError", value |-> None, warned |-> FALSE,
              correlation_matrix |-> None, covariance_matrix |-> None]
        ELSE [outcome |-> "ok", value |-> CorrMatrix(frame, available_props),
              warned |-> FALSE,
              correlation_matrix |-> CorrMatrix(frame, available_props),
              covariance_matrix  |-> CovMatrix(frame, available_props)]

\* outcome, return value and the two matrices stored on the engine
calculate_prop_correlations(frame, props) ==
    LET available_props == SelectSeq(props, LAMBDA p : p \in Range(frame.columns))
        n_samples       == frame.n_rows
        short           == n_samples < MIN_SAMPLE_SIZE
    IN  IF Len(available_props) < 2
        THEN [outcome |-> "ValueError", value |-> None, warned |-> FALSE,
              correlation_matrix |-> None, covariance_matrix |-> None]
        ELSE IF short /\ Warn(WARNINGS_FILTER) = "raised"
        THEN [outcome |-> "UserWarning", value |-> None, warned |-> TRUE,
              correlation_matrix |-> None, covariance_matrix |-> None]
        ELSE [outcome |-> "ok", value |-> CorrMatrix(frame, available_props),
              warned |-> short,
              correlation_matrix |-> CorrMatrix(frame, available_props),
              covariance_matrix  |-> CovMatrix(frame, available_props)]

\* 2 * (1 - norm.cdf(|atanh(corr)| * sqrt(n - 3))) for n = 30, in millionths
fisher_p_value(corr) ==
    CASE Abs(corr) = 0   -> 1000000
      [] Abs(corr) = 29  -> 120807
      [] Abs(corr) = 30  -> 107767
      [] Abs(corr) = 36  -> 50188
      [] Abs(corr) = 37  -> 43559
      [] Abs(corr) = 50  -> 4313
      [] Abs(corr) = 90  -> 0
      [] Abs(corr) = 100 -> 0

\* variant: the inner loop runs over every column
RECURSIVE LoopPairs_every_column(_, _, _)
LoopPairs_every_column(i, j, n) ==
    IF i > n THEN <<>>
    ELSE IF j > n THEN LoopPairs_every_column(i + 1, 1, n)
    ELSE << <<i, j>> >> \o LoopPairs_every_column(i, j + 1, n)

\* for i, prop1 in enumerate(props): for prop2 in props[i+1:], from (i, j) on
RECURSIVE LoopPairs(_, _, _)
LoopPairs(i, j, n) ==
    IF i > n THEN <<>>
    ELSE IF j > n THEN LoopPairs(i + 1, i + 2, n)
    ELSE IF j <= i THEN LoopPairs(i, i + 1, n)
    ELSE << <<i, j>> >> \o LoopPairs(i, j + 1, n)

CorrelatedPair(prop1, prop2, correlation, covariance, p_value, sample_size) ==
    [prop1 |-> prop1, prop2 |-> prop2, correlation |-> correlation,
     covariance |-> covariance, p_value |-> p_value, sample_size |-> sample_size]

\* list.sort(key=abs(correlation), reverse=True): stable, largest first
RECURSIVE InsertByStrength(_, _)
InsertByStrength(sorted, pair) ==
    IF sorted = <<>> THEN <<pair>>
    ELSE IF Abs(Head(sorted).correlation) >= Abs(pair.correlation)
    THEN <<Head(sorted)>> \o InsertByStrength(Tail(sorted), pair)
    ELSE <<pair>> \o sorted

RECURSIVE SortByStrength(_, _)
SortByStrength(sorted, rest) ==
    IF rest = <<>> THEN sorted
    ELSE SortByStrength(InsertByStrength(sorted, Head(rest)), Tail(rest))

\* the pair passes both tests of the loop body
PassesTests(matrix, a, b, min_correlation) ==
    LET corr == matrix.at[<<a, b>>]
    IN  /\ ~corr.nan
        /\ ~(Abs(corr.v) < min_correlation)
        /\ fisher_p_value(corr.v) < SIGNIFICANCE_LEVEL

\* variant: without any matrix there is nothing to report
find_significant_pairs_lenient(self_correlation_matrix, self_covariance_matrix, matrix_arg, min_correlation) ==
    [outcome |-> "ok", value |-> <<>>]

\* matrix_arg is the correlation_matrix argument (None: use the stored one)
find_significant_pairs(self_correlation_matrix, self_covariance_matrix, matrix_arg, min_correlation) ==
    IF matrix_arg = None /\ self_correlation_matrix = None
    THEN [outcome |-> "ValueError", value |-> None]
    ELSE LET matrix == IF matrix_arg = None
                       THEN self_correlation_matrix ELSE matrix_arg
             props  == matrix.columns
             kept   == SelectSeq(LoopPairs(1, 1, Len(props)),
                                 LAMBDA ij : PassesTests(matrix, props[ij[1]], props[ij[2]],
                                                         min_correlation))
             missing(ij) == /\ self_covariance_matrix # None
                            /\ <<props[ij[1]], props[ij[2]]>>
                                  \notin DOMAIN self_covariance_matrix.at
             pair(ij) ==
                 CorrelatedPair(props[ij[1]], props[ij[2]],
                                matrix.at[<<props[ij[1]], props[ij[2]]>>].v,
                                IF self_covariance_matrix # None
                                THEN self_covariance_matrix.at[<<props[ij[1]], props[ij[2]]>>]
                                ELSE Value(0),
                                fisher_p_value(matrix.at[<<props[ij[1]], props[ij[2]]>>].v),
                                MIN_SAMPLE_SIZE)
         IN  IF \E k \in 1..Len(kept) : missing(kept[k])
             THEN [outcome |-> "KeyError", value |-> None]
             ELSE [outcome |-> "ok",
                   value |-> SortByStrength(<<>>, [k \in 1..Len(kept) |-> pair(kept[k])])]

MaxProps == 3      \* length of a props list

PropNames     == {"QB_Pass_Yards", "WR1_Rec_Yards", "RB_Rush_Yards"}
AbsentProp    == "TE_Rec_Yards"
CorrelationGrid == {-90, -50, 29, 36, 50}
MinCorrelations == {30, 50}

Frame(n_rows, qb_wr, qb_rb, wr_rb) ==
    [columns |-> <<"QB_Pass_Yards", "WR1_Rec_Yards", "RB_Rush_Yards">>,
     n_rows  |-> n_rows,
     corr    |-> [pair \in {{"QB_Pass_Yards", "WR1_Rec_Yards"},
                            {"QB_Pass_Yards", "RB_Rush_Yards"},
                            {"WR1_Rec_Yards", "RB_Rush_Yards"}} |->
                     IF pair = {"QB_Pass_Yards", "WR1_Rec_Yards"} THEN qb_wr
                     ELSE IF pair = {"QB_Pass_Yards", "RB_Rush_Yards"} THEN qb_rb
                     ELSE wr_rb]]

\* frames of 30 games with every combination of correlations, short frames
\* of 29 games and of one game, and a frame with a single column
Frames ==
    {Frame(30, x, y, z) : x \in CorrelationGrid, y \in CorrelationGrid, z \in CorrelationGrid}
    \cup {Frame(29, 50, -90, 36), Frame(1, 50, -90, 36)}
    \cup {[columns |-> <<"QB_Pass_Yards">>, n_rows |-> 30, corr |-> [pair \in {} |-> 0]]}

PropsLists ==
    {props \in UNION {[1..n -> PropNames \cup {AbsentProp}] : n \in 0..MaxProps} :
        \A i, j \in 1..Len(props) : props[i] = props[j] => i = j}

\* the correlation_matrix argument: omitted, or a matrix of the caller's own
MatrixArgs(frame) ==
    {None} \cup
    (IF Len(frame.columns) = 3
     THEN {CorrMatrix(frame, <<"RB_Rush_Yards", "QB_Pass_Yards", "WR1_Rec_Yards">>)}
     ELSE {})

InitCorr ==
    /\ game_context = None /\ last_set = None
    /\ EngineIdle /\ AppIdle /\ ConfIdle /\ InputIdle
    /\ KellyIdle /\ SimIdle /\ ValidatorIdle /\ EvalIdle
    /\ historical_data \in Frames
    /\ correlation_matrix = None /\ covariance_matrix = None
    /\ corr_result = None

CalculatePropCorrelations(props) ==
    /\ \E r \in {calculate_prop_correlations(historical_data, props)} :
         /\ corr_result' = [method |-> "calculate_prop_correlations",
                            props |-> props, matrix |-> None, given |-> FALSE,
                            min_correlation |-> 0,
                            outcome |-> r.outcome, value |-> r.value, warned |-> r.warned]
         /\ IF r.outcome = "ok"
            THEN /\ correlation_matrix' = r.correlation_matrix
                 /\ covariance_matrix' = r.covariance_matrix
            ELSE UNCHANGED <<correlation_matrix, covariance_matrix>>
    /\ UNCHANGED historical_data
    /\ UNCHANGED exceptCorr

FindSignificantPairs(matrix_arg, min_correlation) ==
    /\ \E r \in {find_significant_pairs(correlation_matrix, covariance_matrix,
                                        matrix_arg, min_correlation)} :
         corr_result' = [method |-> "find_significant_pairs",
                         props |-> <<>>,
                         matrix |-> IF matrix_arg = None THEN correlation_matrix
                                    ELSE matrix_arg,
                         given |-> matrix_arg # None,
                         min_correlation |-> min_correlation,
                         outcome |-> r.outcome, value |-> r.value, warned |-> FALSE]
    /\ UNCHANGED <<historical_data, correlation_matrix, covariance_matrix>>
    /\ UNCHANGED exceptCorr

NextCorr ==
    \/ \E props \in PropsLists : CalculatePropCorrelations(props)
    \/ \E m \in MatrixArgs(historical_data), c \in MinCorrelations :
          FindSignificantPairs(m, c)

SpecCorr == InitCorr /\ [][NextCorr]_vars

(***************************************************************************)
(* AdversarialValidator.  A feature frame is its column labels in order,   *)
(* its number of rows and the values of each column.  The AUC of a fold is *)
(* the outcome of fitting a random forest and is drawn from AucGrid, in    *)
(* hundredths; the mean over the folds is exact.  Both frames carry the    *)
(* same feature columns.  The cross-validation cannot score a fold whose   *)
(* validation part holds one class only, which happens as soon as a frame  *)
(* has fewer rows than there are folds: roc_auc_score raises ValueError.   *)
(***************************************************************************)
N_FOLDS == 5

HIGH_RISK_AUC     == Rat(7, 10)
MODERATE_RISK_AUC == Rat(6, 10)
PASS_AUC          == Rat(7, 10)

AucGrid == {50, 60, 65, 70, 80, 100}

FeatureColumns == <<"epa_per_play", "implied_team_total">>

FeatureFrame(n_rows, offset) ==
    [columns |-> FeatureColumns,
     n_rows  |-> n_rows,
     data    |-> [c \in Range(FeatureColumns) |-> [r \in 1..n_rows |-> r + offset]]]

TrainFrames == {FeatureFrame(20, 0), FeatureFrame(5, 0), FeatureFrame(4, 0)}
TestFrames  == {FeatureFrame(5, 2), FeatureFrame(1, 2)}

\* the fold AUCs up to their order, which mean and deviation do not depend on
FoldAucs ==
    {aucs \in [1..N_FOLDS -> AucGrid] : \A k \in 1..N_FOLDS - 1 : aucs[k] <= aucs[k + 1]}

\* frame[name] = value : the column is appended, or overwritten in place
SetColumn(frame, name, value) ==
    LET columns == IF name \in Range(frame.columns) THEN frame.columns
                   ELSE Append(frame.columns, name)
    IN  [columns |-> columns,
         n_rows  |-> frame.n_rows,
         data    |-> [c \in Range(columns) |->
                         IF c = name THEN [r \in 1..frame.n_rows |-> value]
                         ELSE frame.data[c]]]

RECURSIVE SumSeq(_)
SumSeq(seq) == IF seq = <<>> THEN 0 ELSE Head(seq) + SumSeq(Tail(seq))

\* np.mean(aucs)
MeanAuc(aucs) == Rat(SumSeq(aucs), 100 * Len(aucs))

\* np.std(aucs) squared: the mean squared deviation from the mean
VarAuc(aucs) ==
    LET total == SumSeq(aucs)
        n     == Len(aucs)
    IN  Rat(SumSeq([k \in 1..n |-> (n * aucs[k] - total) * (n * aucs[k] - total)]),
            10000 * n * n * n)

Interpretation(mean_auc) ==
    IF RLt(HIGH_RISK_AUC, mean_auc) THEN "HIGH RISK"
    ELSE IF RLt(MODERATE_RISK_AUC, mean_auc) THEN "MODERATE RISK"
    ELSE "LOW RISK"

\* the frames the call leaves behind and the value it returns
validate(train, test, aucs) ==
    LET labelled_train == SetColumn(train, "is_test", 0)
        labelled_test  == SetColumn(test, "is_test", 1)
    IN  [train_features |-> labelled_train,
         test_features  |-> labelled_test,
         results |->
            IF train.n_rows < N_FOLDS \/ test.n_rows < N_FOLDS
            THEN [outcome |-> "ValueError", mean_auc |-> None, std_auc_squared |-> None,
                  warning |-> None, passed |-> None]
            ELSE [outcome |-> "ok",
                  mean_auc |-> MeanAuc(aucs),
                  std_auc_squared |-> VarAuc(aucs),
                  warning |-> Interpretation(MeanAuc(aucs)),
                  passed |-> RLt(MeanAuc(aucs), PASS_AUC)]]

InitValidator ==
    /\ game_context = None /\ last_set = None
    /\ EngineIdle /\ AppIdle /\ ConfIdle /\ InputIdle
    /\ KellyIdle /\ SimIdle /\ CorrIdle /\ EvalIdle
    /\ train_features \in TrainFrames
    /\ test_features \in TestFrames
    /\ validation_results = None

\* validator.validate(train_features, test_features)
Validate(aucs) ==
    /\ \E r \in {validate(train_features, test_features, aucs)} :
         /\ train_features' = r.train_features
         /\ test_features' = r.test_features
         /\ validation_results' = r.results
    /\ UNCHANGED exceptValidator

\* validator.validate(train_features.copy(), test_features.copy())
ValidateCopies(aucs) ==
    /\ validation_results' = validate(train_features, test_features, aucs).results
    /\ UNCHANGED <<train_features, test_features>>
    /\ UNCHANGED exceptValidator

NextValidator ==
    \/ \E aucs \in FoldAucs : Validate(aucs)
    \/ \E aucs \in FoldAucs : ValidateCopies(aucs)

SpecValidator == InitValidator /\ [][NextValidator]_vars

(***************************************************************************)
(* ModelEvaluator.  Probabilities are in hundredths.  The bin edges are    *)
(* np.linspace(0, 1, n_bins + 1) and np.digitize(p, bins) counts the edges *)
(* that are <= p, so p lies in bin floor(p * n_bins) and p = 1 gets index  *)
(* n_bins, one past the last bin of range(n_bins).  The probabilities of   *)
(* ProbabilityGrid are 0, 1, the exactly representable edge 0.5 and values *)
(* strictly inside a bin, where floating point and exact edges agree.      *)
(***************************************************************************)
MaxPredictions == 2    \* length of predicted_probs

ProbabilityGrid == {0, 5, 35, 50, 95, 100}
BinCounts       == {2, 10}

EvalInputs ==
    {[true_outcomes |-> t, predicted_probs |-> p, n_bins |-> b] :
        <<t, p>> \in UNION {[1..n -> {0, 1}] \X [1..n -> ProbabilityGrid] :
                               n \in 0..MaxPredictions},
        b \in BinCounts}

\* np.digitize(p, np.linspace(0, 1, n_bins + 1)) - 1
digitize_index(p, n_bins) == (p * n_bins) \div 100

\* mask = bin_indices == i, as the positions it selects
Mask(predicted_probs, n_bins, i) ==
    {k \in 1..Len(predicted_probs) : digitize_index(predicted_probs[k], n_bins) = i}

RECURSIVE SumOver(_, _)
SumOver(seq, mask) ==
    IF mask = {} THEN 0
    ELSE LET k == CHOOSE k \in mask : TRUE
         IN  seq[k] + SumOver(seq, mask \ {k})

\* true_outcomes[mask].mean()
BinAccuracy(true_outcomes, mask) == Rat(SumOver(true_outcomes, mask), Cardinality(mask))

\* predicted_probs[mask].mean()
BinConfidence(predicted_probs, mask) ==
    Rat(SumOver(predicted_probs, mask), 100 * Cardinality(mask))

RAbsDiff(a, b) == IF RLt(a, b) THEN RSub(b, a) ELSE RSub(a, b)

\* the loop  for i in range(n_bins)  from bin i on, appending per non-empty bin
RECURSIVE CurveFrom(_, _, _, _)
CurveFrom(true_outcomes, predicted_probs, n_bins, i) ==
    IF i >= n_bins THEN [bin_means |-> <<>>, true_freqs |-> <<>>]
    ELSE LET mask == Mask(predicted_probs, n_bins, i)
             rest == CurveFrom(true_outcomes, predicted_probs, n_bins, i + 1)
         IN  IF Cardinality(mask) > 0
             THEN [bin_means  |-> <<BinConfidence(predicted_probs, mask)>> \o rest.bin_means,
                   true_freqs |-> <<BinAccuracy(true_outcomes, mask)>> \o rest.true_freqs]
             ELSE rest

calibration_curve(true_outcomes, predicted_probs, n_bins) ==
    CurveFrom(true_outcomes, predicted_probs, n_bins, 0)

RECURSIVE EceFrom(_, _, _, _)
EceFrom(true_outcomes, predicted_probs, n_bins, i) ==
    IF i >= n_bins THEN RInt(0)
    ELSE LET mask == Mask(predicted_probs, n_bins, i)
             rest == EceFrom(true_outcomes, predicted_probs, n_bins, i + 1)
         IN  IF Cardinality(mask) > 0
             THEN RAdd(RMul(Rat(Cardinality(mask), Len(predicted_probs)),
                            RAbsDiff(BinAccuracy(true_outcomes, mask),
                                     BinConfidence(predicted_probs, mask))),
                       rest)
             ELSE rest

expected_calibration_error(true_outcomes, predicted_probs, n_bins) ==
    EceFrom(true_outcomes, predicted_probs, n_bins, 0)

InitEval ==
    /\ game_context = None /\ last_set = None
    /\ EngineIdle /\ AppIdle /\ ConfIdle /\ InputIdle
    /\ KellyIdle /\ SimIdle /\ CorrIdle /\ ValidatorIdle
    /\ eval_args \in EvalInputs
    /\ eval_result = None

CalibrationCurve ==
    /\ eval_result = None
    /\ eval_result' = [method |-> "calibration_curve",
                       value  |-> calibration_curve(eval_args.true_outcomes,
                                                    eval_args.predicted_probs,
                                                    eval_args.n_bins)]
    /\ UNCHANGED eval_args
    /\ UNCHANGED exceptEval

ExpectedCalibrationError ==
    /\ eval_result = None
    /\ eval_result' = [method |-> "expected_calibration_error",
                       value  |-> expected_calibration_error(eval_args.true_outcomes,
                                                             eval_args.predicted_probs,
                                                             eval_args.n_bins)]
    /\ UNCHANGED eval_args
    /\ UNCHANGED exceptEval

NextEval ==
    \/ CalibrationCurve
    \/ ExpectedCalibrationError

SpecEval == InitEval /\ [][NextEval]_vars

-----------------------------------------------------------------------------
(* Properties                                                              *)

Done == pc = "done"

ParlaySet == {parlays[i] : i \in 1..Len(parlays)}
LegSet(parlay) == {parlay.legs[i] : i \in 1..Len(parlay.legs)}
ProjectionSet == {projections[i] : i \in 1..Len(projections)}

\* C1: the script of a finished run is a function of (spread, total) with
\* strict thresholds, the spread deciding before the total: spread > 6.5 is
\* Trailing, spread < -6.5 is Leading, otherwise total > 49.5 is Explosive,
\* otherwise Neutral.
C1_GameScriptThresholds ==
    Done =>
        /\ (app_context.spread > 65 => game_script = "Trailing Script")
        /\ (app_context.spread < -65 => game_script = "Leading Script")
        /\ (app_context.spread >= -65 /\ app_context.spread <= 65 /\ app_context.total > 495
                => game_script = "Explosive Stack")
        /\ (app_context.spread >= -65 /\ app_context.spread <= 65 /\ app_context.total <= 495
                => game_script = "Neutral Script")

\* a run with spread 10 and total 50 was classified Trailing
C1_Witness ==
    Done /\ app_context.spread = 100 /\ app_context.total = 500
         /\ game_script = "Trailing Script"

TemplateDirection(script, stat_type) ==
    IF script = "Trailing Script"
    THEN (IF stat_type \in {"Pass Attempts", "Receptions"} THEN "Over"
          ELSE IF stat_type = "Rush Yards" THEN "Under" ELSE "none")
    ELSE IF script = "Leading Script"
    THEN (IF stat_type \in {"Rush Attempts", "Rush Yards"} THEN "Over"
          ELSE IF stat_type = "Pass Attempts" THEN "Under" ELSE "none")
    ELSE IF script = "Explosive Stack"
    THEN (IF stat_type \in {"Passing Yards", "Rec Yards"} THEN "Over" ELSE "none")
    ELSE "none"

\* C2: in every returned parlay each leg has the direction its script
\* template fixes for the leg's stat type, whatever the source projection
\* recommends.
C2_TemplateDirections ==
    Done => \A parlay \in ParlaySet : \A leg \in LegSet(parlay) :
                leg.direction = TemplateDirection(parlay.game_script, leg.stat_type)

\* spread 10: the parlay holds an Under leg on the rush yards of a ball
\* carrier whose projection recommends Over
C2_Witness ==
    /\ Done /\ app_context.spread = 100
    /\ \E parlay \in ParlaySet : \E leg \in LegSet(parlay) :
         /\ parlay.game_script = "Trailing Script"
         /\ leg.stat_type = "Rush Yards" /\ leg.direction = "Under"
         /\ \A proj \in ProjectionSet :
              (proj.position = "RB" /\ proj.stat_type = "Rush Yards")
                  => proj.recommendation = "Over"

\* C3: no returned parlay has fewer than two legs, and an empty projection
\* list gives the empty result.
C3_AtLeastTwoLegs ==
    Done =>
        /\ \A parlay \in ParlaySet : Len(parlay.legs) >= 2
        /\ (projections = <<>> => parlays = <<>>)

\* a trailing run with a passer's attempts projection and nothing else of the
\* template returned no parlay
C3_Witness ==
    /\ Done /\ game_script = "Trailing Script" /\ parlays = <<>>
    /\ \E proj \in ProjectionSet : proj.position = "QB" /\ proj.stat_type = "Pass Attempts"
    /\ \A proj \in ProjectionSet :
         /\ ~(proj.position \in {"WR", "TE"} /\ proj.stat_type = "Receptions")
         /\ ~(proj.position = "RB" /\ proj.stat_type = "Rush Yards")

ReceiverCandidates(stat_type) ==
    {proj \in ProjectionSet : proj.position \in {"WR", "TE"} /\ proj.stat_type = stat_type}

\* C4: the receiver leg of a parlay comes from a candidate of its stat type;
\* when some candidate recommends Over the chosen one recommends Over and has
\* the largest |edge| among those, otherwise it has the largest |edge| of all
\* candidates; without candidates there is no receiver leg.
C4_BestReceiver ==
    Done => \A parlay \in ParlaySet : \A leg \in LegSet(parlay) :
        leg.stat_type \in {"Receptions", "Rec Yards"} =>
            LET cands == ReceiverCandidates(leg.stat_type)
                overs == {c \in cands : c.recommendation = "Over"}
            IN  \E c \in cands :
                  /\ c.player_name = leg.player_name /\ c.market_line = leg.line
                  /\ Abs(c.edge) = Abs(leg.edge)
                  /\ (overs # {} => c \in overs /\ \A o \in overs : Abs(o.edge) <= Abs(c.edge))
                  /\ (overs = {} => \A o \in cands : Abs(o.edge) <= Abs(c.edge))

\* the receptions leg went to an Over candidate although an Under candidate
\* has the larger |edge|
C4_Witness ==
    /\ Done
    /\ \E parlay \in ParlaySet : \E leg \in LegSet(parlay) :
         /\ leg.stat_type = "Receptions"
         /\ \E o \in ReceiverCandidates("Receptions") :
              /\ o.recommendation = "Over" /\ o.player_name = leg.player_name
              /\ \E u \in ReceiverCandidates("Receptions") :
                    u.recommendation = "Under" /\ Abs(u.edge) > Abs(o.edge)

\* C5: the combined confidence of every returned parlay lies in [0, 100] and
\* does not exceed 95.
C5_ConfidenceInRange ==
    Done => \A parlay \in ParlaySet :
                /\ RLe(RInt(0), parlay.combined_confidence)
                /\ RLe(parlay.combined_confidence, RInt(95))

\* C6 as stated: for every script the label is Strong exactly for three legs
\* and Moderate otherwise.
C6_StrongIffThreeLegs ==
    Done => \A parlay \in ParlaySet :
                parlay.correlation_strength =
                    (IF Len(parlay.legs) = 3 THEN "Strong" ELSE "Moderate")

\* C6: a Trailing or Leading parlay is labelled Strong exactly when it has
\* three legs and Moderate otherwise; an Explosive parlay has two legs and is
\* labelled Strong.
C6_StrengthLabels ==
    Done => \A parlay \in ParlaySet :
        IF parlay.game_script = "Explosive Stack"
        THEN Len(parlay.legs) = 2 /\ parlay.correlation_strength = "Strong"
        ELSE parlay.correlation_strength =
                 (IF Len(parlay.legs) = 3 THEN "Strong" ELSE "Moderate")

\* one run returned a two-leg Moderate parlay of the primary script and a
\* two-leg Strong Explosive parlay
C6_Witness ==
    /\ Done
    /\ \E parlay \in ParlaySet :
         /\ parlay.game_script # "Explosive Stack"
         /\ Len(parlay.legs) = 2 /\ parlay.correlation_strength = "Moderate"
    /\ \E parlay \in ParlaySet :
         /\ parlay.game_script = "Explosive Stack"
         /\ Len(parlay.legs) = 2 /\ parlay.correlation_strength = "Strong"

\* C7: the explosive template is evaluated once when total > 47 and not at
\* all otherwise; the result has at most two parlays, no script twice, and an
\* additional Explosive parlay comes after the primary script's parlay.
C7_ExplosiveOnce ==
    Done =>
        /\ explosive_evals = (IF app_context.total > 470 THEN 1 ELSE 0)
        /\ Len(parlays) <= 2
        /\ \A i, j \in 1..Len(parlays) :
             i # j => parlays[i].game_script # parlays[j].game_script
        /\ (Len(parlays) = 2 =>
               /\ parlays[1].game_script = game_script
               /\ parlays[2].game_script = "Explosive Stack")
        /\ \A i \in 1..Len(parlays) :
             parlays[i].game_script \in {game_script, "Explosive Stack"}

\* a run returned the primary parlay followed by the Explosive one
C7_Witness ==
    /\ Done /\ Len(parlays) = 2 /\ explosive_evals = 1
    /\ parlays[1].game_script = "Leading Script"
    /\ parlays[2].game_script = "Explosive Stack"

\* the edge formula applied to a projected value p and a line in tenths
EdgeOf(p, line) ==
    RMul(RDiv(RSub(p, Rat(line, 10)), Rat(line, 10)), RInt(100))

\* C8 as stated: the edge of a returned record is (projected value - line) /
\* line x 100 exactly for the record's own projected value and market line,
\* and the recommendation is Over exactly when that projected value exceeds
\* the line.
C8_EdgeOfRecord ==
    outcome = "ok" => \A i \in 1..Len(gen_result) :
        LET rec == gen_result[i]
        IN  /\ Rat(rec.edge, 100) = EdgeOf(Rat(rec.projected_value, 10), rec.market_line)
            /\ (rec.recommendation = "Over" <=> rec.projected_value > rec.market_line)

\* C8: the record holds the projection rounded to one decimal and the edge
\* rounded to two decimals, the edge being (p - line) / line x 100 for the
\* unrounded projection p; the recommendation is Over exactly when p exceeds
\* the line.
C8_EdgeOfProjection ==
    outcome = "ok" => \A i \in 1..Len(gen_result) :
        LET rec == gen_result[i]
            p   == gen_raw[i]
        IN  /\ rec.projected_value = RoundScaled(p, 10)
            /\ rec.edge = RoundScaled(EdgeOf(p, rec.market_line), 100)
            /\ (rec.recommendation = "Over" <=> RLt(Rat(rec.market_line, 10), p))

\* a returned record whose stored projection and edge are both rounded values
C8_Witness ==
    /\ outcome = "ok"
    /\ \E i \in 1..Len(gen_result) :
         /\ Rat(gen_result[i].projected_value, 10) # gen_raw[i]
         /\ Rat(gen_result[i].edge, 100) # EdgeOf(gen_raw[i], gen_result[i].market_line)

ConfidenceRange ==
    /\ RLe(RInt(35), confidence) /\ RLe(confidence, RInt(95))
    /\ (edge_magnitude = 200 => confidence = RInt(50))
    /\ (edge_magnitude >= 1500 => confidence = RInt(95))

\* C9: the confidence never falls as |edge| rises, also across 2% and 15%;
\* it lies in [35, 95], is 50 at |edge| = 2 and 95 from |edge| = 15 on.
C9_ConfidenceMonotone ==
    /\ []ConfidenceRange
    /\ [][RLe(confidence, confidence')]_vars

\* the upper threshold was reached from below
C9_Witness ==
    edge_magnitude = 1500 /\ confidence = RInt(95)

\* C10: a generate_projections call on an engine that was never handed a
\* context fails and returns nothing; a call on an engine that was handed a
\* context behaves as the projection under the context handed over last.
C10_ContextRequired ==
    outcome # "none" =>
        IF gen_ctx = None
        THEN outcome = "ValueError" /\ gen_result = <<>>
        ELSE LET expected == generate_projections(gen_ctx, PlayerNamed(gen_player))
             IN  /\ outcome # "ValueError"
                 /\ outcome = expected.outcome
                 /\ gen_result = expected.projections

\* a call on an engine that holds the context handed over last returned
\* projections
C10_Witness ==
    /\ outcome = "ok" /\ gen_result # <<>>
    /\ gen_ctx # None /\ gen_ctx = last_set /\ game_context = last_set

\* the objects that exist, the values the engine read and the errors raised
InputInRange ==
    /\ input_context # None => input_context.opponent_rank \in 1..32
    /\ input_player # None => input_player.stats.games_played >= 1
    /\ gen_ctx # None => gen_ctx.opponent_rank \in 1..32
    /\ outcome \in {"none", "ok"}
    /\ validation_error.source = "get_game_context" =>
          /\ validation_error.fields # <<>>
          /\ validation_error.input.opponent_rank \notin 1..32
                <=> \E i \in 1..Len(validation_error.fields) :
                        validation_error.fields[i] = "opponent_rank"
    /\ validation_error.source = "get_player_data" =>
          \/ validation_error.input.games_played < 1
          \/ validation_error.input.games_played > 17

\* a rejected value leaves the objects built before as they were
RejectedBuildsNothing ==
    validation_error'.source # "none" /\ validation_error' # validation_error
        => input_context' = input_context /\ input_player' = input_player

\* C11: a GameContext or a stats record exists only with its fields in range
\* (opponent rank in 1..32, games played at least 1), so the engine reads no
\* other value; a value out of range raises a ValidationError naming the
\* field and builds no object, and an error is raised for no other input.
C11_ValidationRejects == []InputInRange /\ [][RejectedBuildsNothing]_vars

\* an opponent rank and a games-played count out of range were both refused
\* while the objects entered before were analysed
C11_Witness ==
    /\ validation_error.source = "get_player_data"
    /\ validation_error.input.games_played = 0
    /\ input_context # None /\ input_player # None
    /\ outcome = "ok" /\ gen_ctx = input_context

\* the multiplier the opponent rank stands for
RankFactor(rank) ==
    IF rank \in 1..5 THEN Rat(88, 100)
    ELSE IF rank \in 28..32 THEN Rat(112, 100)
    ELSE RInt(1)

YardageStats == {"Passing Yards", "Rush Yards", "Rec Yards"}

\* last-5 average and season total behind a stat type
RecentOf(stats, stat_type) ==
    CASE stat_type = "Passing Yards" -> stats.passing_yards_l5_avg
      [] stat_type = "Rush Yards"    -> stats.rush_yards_l5_avg
      [] stat_type = "Pass Attempts" -> stats.pass_attempts_l5_avg
      [] stat_type = "Rush Attempts" -> stats.rush_attempts_l5_avg
      [] stat_type = "Rec Yards"     -> stats.rec_yards_l5_avg
      [] stat_type = "Receptions"    -> stats.receptions_l5_avg

SeasonOf(stats, stat_type) ==
    CASE stat_type = "Passing Yards" -> stats.passing_yards_season_total
      [] stat_type = "Rush Yards"    -> stats.rush_yards_season_total
      [] stat_type = "Pass Attempts" -> stats.pass_attempts_season_total
      [] stat_type = "Rush Attempts" -> stats.rush_attempts_season_total
      [] stat_type = "Rec Yards"     -> stats.rec_yards_season_total
      [] stat_type = "Receptions"    -> stats.receptions_season_total

\* weighted-recency base projection: last5 x 0.65 + season average x 0.35
WeightedBase(player, stat_type) ==
    RAdd(RMul(RecentOf(player.stats, stat_type), Rat(65, 100)),
         RMul(RDiv(SeasonOf(player.stats, stat_type), RInt(player.stats.games_played)),
              Rat(35, 100)))

ScriptFactor(ctx, trailing, leading) ==
    IF ctx.spread > 65 THEN trailing ELSE IF ctx.spread < -65 THEN leading ELSE RInt(1)

\* the position-specific modifiers applied to a value v after the rank step
PositionModifiers(player, stat_type, line, ctx, v) ==
    CASE stat_type = "Passing Yards" ->
            IF RLt(Rat(20, 100), player.stats.epa_per_play) THEN RMul(v, Rat(105, 100)) ELSE v
      [] stat_type = "Rush Yards" /\ player.position = QB -> v
      [] stat_type = "Rush Yards" /\ player.position = RB ->
            RMul(RMul(v, IF RLt(RInt(70), player.stats.opportunity_share_pct)
                         THEN Rat(105, 100) ELSE RInt(1)),
                 ScriptFactor(ctx, Rat(88, 100), Rat(110, 100)))
      [] stat_type = "Rec Yards" ->
            IF RLt(RInt(28), player.stats.target_share_pct)
            THEN RMax(RMul(v, Rat(108, 100)), RMul(Tenths(line), Rat(95, 100)))
            ELSE v
      [] stat_type = "Pass Attempts" -> RMul(v, ScriptFactor(ctx, Rat(108, 100), Rat(92, 100)))
      [] stat_type = "Rush Attempts" -> RMul(v, ScriptFactor(ctx, Rat(85, 100), Rat(112, 100)))
      [] stat_type = "Receptions" ->
            IF RLt(RInt(25), player.stats.target_share_pct) THEN RMul(v, Rat(105, 100)) ELSE v

\* projection i of the last call comes from the base projection times factor
ProjectedFrom(i, factor) ==
    LET player == PlayerNamed(gen_player)
        proj   == gen_result[i]
    IN  gen_raw[i] = PositionModifiers(player, proj.stat_type, proj.market_line, gen_ctx,
                                       RMul(WeightedBase(player, proj.stat_type), factor))

\* C12 as stated: every projected stat type of every position carries the
\* opponent-rank multiplier (0.88 for ranks 1..5, 1.12 for 28..32, else 1).
C12_EveryStatModified ==
    outcome = "ok" =>
        \A i \in 1..Len(gen_result) : ProjectedFrom(i, RankFactor(gen_ctx.opponent_rank))

\* C12 amended: the yardage projections (Passing Yards, Rush Yards, Rec Yards)
\* carry the opponent-rank multiplier on the weighted-recency base, with 5
\* damped, 6 and 27 unchanged and 28 boosted; the Pass Attempts, Rush Attempts
\* and Receptions projections do not depend on the opponent rank.
C12_YardageModified ==
    outcome = "ok" =>
        \A i \in 1..Len(gen_result) :
            IF gen_result[i].stat_type \in YardageStats
            THEN ProjectedFrom(i, RankFactor(gen_ctx.opponent_rank))
            ELSE ProjectedFrom(i, RInt(1))

\* a passer projected against a rank-5 defence: yards damped, attempts not
C12_Witness ==
    /\ outcome = "ok" /\ gen_player = "Qb One" /\ gen_ctx.opponent_rank = 5
    /\ Len(gen_result) = 3
    /\ gen_raw[1] = RMul(WeightedBase(PlayerNamed("Qb One"), "Passing Yards"), Rat(88, 100))
    /\ gen_result[3].stat_type = "Pass Attempts"

\* C13: a receiver with target share above 28% and a positive receiving-yards
\* line is projected at no less than 0.95 x line, so the stored edge of the
\* Rec Yards projection is at least -5%; at 28% or below the projection is
\* the rank-adjusted base, with no floor.
C13_VolumeFloor ==
    outcome = "ok" /\ PlayerNamed(gen_player).position \in {WR, TE} =>
        \A i \in 1..Len(gen_result) :
            gen_result[i].stat_type = "Rec Yards" /\ gen_result[i].market_line > 0 =>
                IF RLt(RInt(28), PlayerNamed(gen_player).stats.target_share_pct)
                THEN /\ RLe(RMul(Tenths(gen_result[i].market_line), Rat(95, 100)), gen_raw[i])
                     /\ gen_result[i].edge >= -500
                ELSE gen_raw[i] = RMul(WeightedBase(PlayerNamed(gen_player), "Rec Yards"),
                                       RankFactor(gen_ctx.opponent_rank))

\* the floor decides the projection of a high-share receiver
C13_Witness ==
    /\ outcome = "ok" /\ gen_player = "Wr Three"
    /\ gen_raw[1] = RMul(Tenths(905), Rat(95, 100))
    /\ gen_result[1].edge = -500
    /\ gen_result[1].stat_type = "Rec Yards"

\* the call of calculate_kelly_fraction in the state is within the claimed domain
KellyInDomain ==
    /\ kelly_args # None
    /\ kelly_args.method = "calculate_kelly_fraction"
    /\ RLt(RInt(0), kelly_args.true_probability) /\ RLt(kelly_args.true_probability, RInt(1))
    /\ RLt(RInt(1), kelly_args.decimal_odds)
    /\ RLt(RInt(0), kelly_args.fractional_kelly) /\ RLe(kelly_args.fractional_kelly, RInt(1))

\* (odds - 1) * p - (1 - p)
KellyNumerator ==
    RSub(RMul(RSub(kelly_args.decimal_odds, RInt(1)), kelly_args.true_probability),
         RSub(RInt(1), kelly_args.true_probability))

\* full Kelly written as p - (1 - p) / (odds - 1)
FullKelly ==
    RSub(kelly_args.true_probability,
         RDiv(RSub(RInt(1), kelly_args.true_probability),
              RSub(kelly_args.decimal_odds, RInt(1))))

\* C14: for p in (0,1), decimal odds > 1 and a fractional-Kelly factor in
\* (0,1], calculate_kelly_fraction returns a value in [0, 0.20]; the value is
\* 0 exactly when (odds-1)*p - (1-p) <= 0 and otherwise
\* min(full Kelly x factor, 0.20).
C14_KellyFraction ==
    KellyInDomain =>
        /\ kelly_result.outcome = "ok"
        /\ RLe(RInt(0), kelly_result.value) /\ RLe(kelly_result.value, Rat(1, 5))
        /\ kelly_result.value = RInt(0) <=> RLe(KellyNumerator, RInt(0))
        /\ ~RLe(KellyNumerator, RInt(0)) =>
              kelly_result.value = RMin(RMul(FullKelly, kelly_args.fractional_kelly), Rat(1, 5))

\* a stake cut down to the cap
C14_Witness ==
    /\ KellyInDomain
    /\ kelly_result.value = Rat(1, 5)
    /\ RLt(Rat(1, 5), RMul(FullKelly, kelly_args.fractional_kelly))

\* the share of the draws of the run in which leg j exceeds its line
MarginalOf(j) ==
    Rat(Cardinality({i \in 1..Len(simulated) : simulated[i][j] > sim_props[j].line}),
        Len(simulated))

\* C15: the reported independent probability is the product of the per-leg
\* shares of draws above the leg's line, taken from the sample matrix the
\* true probability was taken from; the correlation advantage is the true
\* probability minus the independent one; with one leg the two are equal.
C15_IndependentProduct ==
    sim_result # None =>
        /\ sim_result.individual_probabilities = [j \in 1..Len(sim_props) |-> MarginalOf(j)]
        /\ sim_result.independent_probability =
              Product([j \in 1..Len(sim_props) |-> MarginalOf(j)])
        /\ sim_result.correlation_advantage =
              RSub(sim_result.true_probability, sim_result.independent_probability)
        /\ Len(sim_props) = 1 =>
              /\ sim_result.true_probability = sim_result.independent_probability
              /\ sim_result.correlation_advantage = RInt(0)

\* two legs that hit together more often than independence predicts, one draw
\* lying exactly on a line
C15_Witness ==
    /\ sim_result # None /\ Len(sim_props) = 2
    /\ RLt(RInt(0), sim_result.correlation_advantage)
    /\ \E i \in 1..Len(simulated) : simulated[i][1] = sim_props[1].line

\* the entries of the requested list that are columns of the data
RequestedColumns ==
    {i \in 1..Len(corr_result.props) :
        \E k \in 1..Len(historical_data.columns) :
            historical_data.columns[k] = corr_result.props[i]}

\* C16: calculate_prop_correlations raises an error and returns nothing when
\* fewer than 2 of the requested props are columns of the data; with at least
\* 2 it returns a correlation matrix over them without error, also when the
\* data has fewer rows than the minimum sample size (then it only warns).
C16_TwoColumnsRequired ==
    corr_result # None /\ corr_result.method = "calculate_prop_correlations" =>
        IF Cardinality(RequestedColumns) < 2
        THEN corr_result.outcome = "ValueError" /\ corr_result.value = None
        ELSE /\ corr_result.outcome = "ok"
             /\ corr_result.value # None
             /\ Len(corr_result.value.columns) = Cardinality(RequestedColumns)
             /\ corr_result.value = correlation_matrix
             /\ corr_result.warned <=> historical_data.n_rows < 30

\* a matrix returned from 29 games
C16_Witness ==
    /\ corr_result # None /\ corr_result.method = "calculate_prop_correlations"
    /\ historical_data.n_rows = 29
    /\ corr_result.outcome = "ok" /\ corr_result.warned
    /\ Len(corr_result.value.columns) = 2

\* the matrix an ended find_significant_pairs call worked on has a pair of
\* distinct props that is both strong and significant
SomePairQualifies ==
    \E a, b \in {corr_result.matrix.columns[k] : k \in 1..Len(corr_result.matrix.columns)} :
        /\ a # b
        /\ ~corr_result.matrix.at[<<a, b>>].nan
        /\ Abs(corr_result.matrix.at[<<a, b>>].v) >= corr_result.min_correlation
        /\ fisher_p_value(corr_result.matrix.at[<<a, b>>].v) < 50000

\* C17: find_significant_pairs returns every unordered pair of distinct props
\* at most once, only pairs with |correlation| >= min_correlation and
\* p-value < significance level, in non-increasing order of |correlation|;
\* when no pair qualifies it returns the empty list and raises nothing.
C17_SignificantPairs ==
    corr_result # None /\ corr_result.method = "find_significant_pairs"
                       /\ corr_result.matrix # None =>
        /\ corr_result.outcome = "ok" =>
              LET pairs == corr_result.value
              IN  /\ \A k \in 1..Len(pairs) :
                        /\ pairs[k].prop1 # pairs[k].prop2
                        /\ Abs(pairs[k].correlation) >= corr_result.min_correlation
                        /\ pairs[k].p_value < 50000
                        /\ pairs[k].correlation =
                              corr_result.matrix.at[<<pairs[k].prop1, pairs[k].prop2>>].v
                  /\ \A k, l \in 1..Len(pairs) :
                        {pairs[k].prop1, pairs[k].prop2} = {pairs[l].prop1, pairs[l].prop2}
                            => k = l
                  /\ \A k \in 1..Len(pairs) - 1 :
                        Abs(pairs[k].correlation) >= Abs(pairs[k + 1].correlation)
        /\ ~SomePairQualifies => corr_result.outcome = "ok" /\ corr_result.value = <<>>

\* three pairs found in loop order weakest first and returned strongest first
C17_Witness ==
    /\ corr_result # None /\ corr_result.method = "find_significant_pairs"
    /\ corr_result.outcome = "ok" /\ Len(corr_result.value) = 3
    /\ Abs(corr_result.value[1].correlation) > Abs(corr_result.value[3].correlation)
    /\ corr_result.value[1].prop1 = corr_result.matrix.columns[2]

\* C18: validate maps the mean cross-validated AUC to its verdict: high risk
\* and not passed when the mean is above 0.7, moderate risk when it is
\* between 0.6 and 0.7, and passed only when it is below 0.6.
C18_VerdictThresholds ==
    validation_results # None /\ validation_results.outcome = "ok" =>
        LET mean_auc == validation_results.mean_auc
        IN  /\ RLt(Rat(7, 10), mean_auc) =>
                  validation_results.warning = "HIGH RISK" /\ ~validation_results.passed
            /\ RLt(Rat(6, 10), mean_auc) /\ RLt(mean_auc, Rat(7, 10)) =>
                  validation_results.warning = "MODERATE RISK"
            /\ validation_results.passed => RLt(mean_auc, Rat(6, 10))

\* C19: no core operation changes the inputs its caller supplies: after
\* validate(train, candidate) returns, both feature samples have exactly the
\* columns and values they had before the call, so no step changes either
\* frame of the caller.
C19_InputsUnchanged ==
    [][/\ train_features' = train_features
       /\ test_features' = test_features]_vars

\* the number of predictions the loop over range(n_bins) puts in some bin
RECURSIVE BinSizesFrom(_)
BinSizesFrom(i) ==
    IF i >= eval_args.n_bins THEN 0
    ELSE Cardinality(Mask(eval_args.predicted_probs, eval_args.n_bins, i))
            + BinSizesFrom(i + 1)

\* C20: every predicted probability in [0, 1], the endpoints 0 and 1
\* included, falls in exactly one of the n_bins bins of calibration_curve and
\* expected_calibration_error: the bin sizes sum to the number of
\* predictions, so that no prediction is dropped from the metric.
C20_EveryPredictionBinned ==
    eval_result # None =>
        /\ \A k \in 1..Len(eval_args.predicted_probs) :
              Cardinality({i \in 0..eval_args.n_bins - 1 :
                  k \in Mask(eval_args.predicted_probs, eval_args.n_bins, i)}) = 1
        /\ BinSizesFrom(0) = Len(eval_args.predicted_probs)

\* C21: simulate_correlated_props and simulate_parlay complete normally for
\* every symmetric unit-diagonal correlation matrix, positive definite or
\* not, and every entry of the sample matrix is >= 0: a failed Cholesky
\* factorization is replaced by the eigenvalue-floored factor.
C21_NeverPropagated ==
    sim_call # None /\ sim_result # None =>
        /\ sim_result.outcome = "ok"
        /\ \A i \in 1..Len(simulated) : \A j \in 1..Len(simulated[i]) : simulated[i][j] >= 0
        /\ Len(simulated) = Len(sim_call.scaled)
        /\ cholesky(sim_call.correlation_matrix).outcome = "LinAlgError"
              => sim_result.L.kind = "eigh_floored"

\* an indefinite matrix and a negative draw, through simulate_parlay
C21_Witness ==
    /\ sim_call # None /\ sim_result # None
    /\ sim_result.method = "simulate_parlay"
    /\ sim_call.correlation_matrix = UnitDiagonal(150)
    /\ sim_result.outcome = "ok" /\ sim_result.L.kind = "eigh_floored"
    /\ sim_call.scaled[1][1] < 0 /\ simulated[1][1] = 0

\* what one run over the current context and player list produces
FreshProjections ==
    Concat([i \in 1..Len(players) |->
        generate_projections(app_context, PlayerNamed(players[i])).projections])

\* C22: across any sequence of review-loop actions the output of a finished
\* run depends only on the game context and player list current when it
\* started: the engine holds the context the builder classified, and the
\* projection list is the one built from empty for the current players, with
\* nothing left from an earlier run or a deleted player.
C22_RunReadsCurrentInputs ==
    pc = "done" =>
        /\ game_context = app_context
        /\ projections = FreshProjections
        /\ game_script = determine_game_script(app_context)
        /\ parlays = find_correlated_parlays(app_context, FreshProjections).parlays

\* a run over an emptied player list and an edited context, after a run that
\* had produced projections
C22_Witness ==
    /\ pc = "done"
    /\ players = <<>> /\ projections = <<>>
    /\ gen_result # <<>> /\ gen_ctx # app_context

\* the multiplier the stated table gives a stat type under a script
BuilderScriptMultiplier(position, stat_type, script) ==
    CASE position = QB /\ stat_type = "Pass Attempts" ->
            IF script = TRAILING THEN Rat(108, 100)
            ELSE IF script = LEADING THEN Rat(92, 100) ELSE RInt(1)
      [] position = RB /\ stat_type = "Rush Yards" ->
            IF script = TRAILING THEN Rat(88, 100)
            ELSE IF script = LEADING THEN Rat(110, 100) ELSE RInt(1)
      [] position = RB /\ stat_type = "Rush Attempts" ->
            IF script = TRAILING THEN Rat(85, 100)
            ELSE IF script = LEADING THEN Rat(112, 100) ELSE RInt(1)
      [] OTHER -> RInt(1)

\* the projection of a stat type before any script multiplier
Unscripted(player, stat_type, ctx) ==
    IF player.position = RB /\ stat_type = "Rush Yards"
    THEN RMul(RMul(WeightedBase(player, stat_type), RankFactor(ctx.opponent_rank)),
              IF RLt(RInt(70), player.stats.opportunity_share_pct)
              THEN Rat(105, 100) ELSE RInt(1))
    ELSE WeightedBase(player, stat_type)

ScriptedStats(position) ==
    IF position = QB THEN {"Pass Attempts"}
    ELSE IF position = RB THEN {"Rush Yards", "Rush Attempts"}
    ELSE {}

\* C23: the engine's script multipliers agree with the builder's
\* classification of the same context: pass attempts x1.08, rush yards x0.88
\* and rush attempts x0.85 exactly when determine_game_script returns
\* Trailing, x0.92, x1.10 and x1.12 exactly when it returns Leading, and no
\* script multiplier when it returns Explosive or Neutral.
C23_MultipliersFollowScript ==
    outcome = "ok" =>
        \A i \in 1..Len(gen_result) :
            LET player == PlayerNamed(gen_player)
                stat   == gen_result[i].stat_type
            IN  stat \in ScriptedStats(player.position) =>
                    gen_raw[i] = RMul(Unscripted(player, stat, gen_ctx),
                                      BuilderScriptMultiplier(player.position, stat,
                                          determine_game_script(gen_ctx)))

\* a ball-carrier projected with the spread on the trailing threshold and a
\* total above the explosive threshold: classified Explosive, no multiplier
C23_Witness ==
    /\ outcome = "ok" /\ PlayerNamed(gen_player).position = RB
    /\ gen_ctx.spread = 65 /\ gen_ctx.total = 500
    /\ determine_game_script(gen_ctx) = EXPLOSIVE
    /\ Len(gen_result) = 2
    /\ gen_raw[2] = WeightedBase(PlayerNamed(gen_player), "Rush Attempts")
    /\ gen_raw[2] # RInt(0)

\* C24: every CorrelatedPair returned by find_significant_pairs reports as
\* its sample size (the n of the Fisher standard error 1/sqrt(n - 3)) the
\* number of per-game observations of the historical data from which the
\* correlation matrix was computed.
C24_SampleSizeIsObservations ==
    corr_result # None /\ corr_result.method = "find_significant_pairs"
                       /\ corr_result.outcome = "ok" =>
        \A k \in 1..Len(corr_result.value) :
            corr_result.value[k].sample_size = historical_data.n_rows

\* C25: minimum_edge_required ignores its odds argument: for a fixed
\* confidence_std every decimal_odds value, 0 included, gives the same
\* outcome, the value 2 x confidence_std.
C25_OddsIgnored ==
    kelly_args # None /\ kelly_args.method = "minimum_edge_required" =>
        /\ kelly_result.outcome = "ok"
        /\ kelly_result.value = RMul(RInt(2), kelly_args.confidence_std)

\* C27: for p in (0,1), decimal odds > 1 and a positive stake,
\* calculate_kelly_fraction returns a positive fraction if and only if
\* calculate_expected_value is positive; a bet sized at 0 never has a
\* positive reported expected value.
C27_KellyAgreesWithExpectedValue ==
    /\ kelly_args # None /\ kelly_args.method = "calculate_expected_value"
    /\ RLt(RInt(0), kelly_args.true_probability) /\ RLt(kelly_args.true_probability, RInt(1))
    /\ RLt(RInt(1), kelly_args.decimal_odds)
    /\ RLt(RInt(0), kelly_args.stake)
    => (RLt(RInt(0), calculate_kelly_fraction(kelly_args.true_probability,
                                              kelly_args.decimal_odds, Rat(1, 4)).value)
           <=> RLt(RInt(0), kelly_result.value))

\* the projections a leg can have been built from
SourcesOf(leg) ==
    {proj \in ProjectionSet :
        /\ proj.player_name = leg.player_name
        /\ proj.stat_type = leg.stat_type
        /\ proj.market_line = leg.line}

\* C26: the edge stored on a parlay leg is relative to the leg's direction:
\* for a source projection with nonzero edge the leg edge is positive exactly
\* when the projection's own recommendation agrees with the leg's direction
\* and negative exactly when it disagrees.
C26_LegEdgeRelativeToDirection ==
    Done => \A parlay \in ParlaySet : \A leg \in LegSet(parlay) :
                \A proj \in SourcesOf(leg) :
                    proj.edge # 0 =>
                        /\ leg.edge > 0 <=> proj.recommendation = leg.direction
                        /\ leg.edge < 0 <=> proj.recommendation # leg.direction

\* the market lines the projection method of a position reads
PositionLines(position) ==
    IF position = QB THEN {"passing_yards", "rush_yards", "pass_attempts"}
    ELSE IF position = RB THEN {"rush_yards", "rush_attempts"}
    ELSE {"rec_yards", "receptions"}

\* C28: with a game context set, generate_projections completes without an
\* arithmetic error for every player whose stats and market lines passed
\* construction-time validation, and returns exactly one projection per
\* market line present for the player's position, each stat type once.
C28_NoArithmeticError ==
    /\ gen_player # "none" /\ gen_ctx # None
    /\ Stats_errors(PlayerNamed(gen_player).position, PlayerNamed(gen_player).stats) = <<>>
    /\ MarketLines_errors(PlayerNamed(gen_player).market_lines) = <<>>
    => /\ outcome = "ok"
       /\ Len(gen_result) =
             Cardinality(PositionLines(PlayerNamed(gen_player).position)
                            \cap DOMAIN PlayerNamed(gen_player).market_lines)
       /\ \A i, j \in 1..Len(gen_result) :
             gen_result[i].stat_type = gen_result[j].stat_type => i = j

\* the stored matrices are absent together or describe the same columns of
\* the same data; a call without a matrix fails exactly when none is stored
StoredTogether ==
    /\ correlation_matrix = None <=> covariance_matrix = None
    /\ correlation_matrix # None =>
          /\ correlation_matrix.columns = covariance_matrix.columns
          /\ correlation_matrix = CorrMatrix(historical_data, correlation_matrix.columns)
          /\ covariance_matrix = CovMatrix(historical_data, correlation_matrix.columns)
    /\ corr_result # None /\ corr_result.method = "find_significant_pairs"
                          /\ ~corr_result.given =>
          /\ corr_result.outcome \in {"ok", "ValueError"}
          /\ corr_result.outcome = "ValueError" <=> correlation_matrix = None

\* the stored matrices change only in a successful calculate_prop_correlations
\* call, which sets both; a failed call leaves both as they were
StoredBySuccessOnly ==
    /\ <<correlation_matrix, covariance_matrix>>' # <<correlation_matrix, covariance_matrix>>
          => /\ corr_result'.method = "calculate_prop_correlations"
             /\ corr_result'.outcome = "ok"
    /\ corr_result'.method = "calculate_prop_correlations" =>
          IF corr_result'.outcome = "ok"
          THEN /\ correlation_matrix' = corr_result'.value
               /\ covariance_matrix' # None
          ELSE /\ correlation_matrix' = correlation_matrix
               /\ covariance_matrix' = covariance_matrix

\* C29: for every sequence of PropCorrelationEngine calls,
\* find_significant_pairs without a matrix fails with an error if and only if
\* no earlier calculate_prop_correlations call has succeeded; a failed
\* calculate_prop_correlations call leaves the stored correlation and
\* covariance matrices as they were, and a successful one replaces both
\* together, so that they describe the same data and the same columns.
C29_StoredMatrices == []StoredTogether /\ [][StoredBySuccessOnly]_vars

\* a failed calculation after a successful one, the stored matrices kept
C29_Witness ==
    /\ corr_result # None /\ corr_result.method = "calculate_prop_correlations"
    /\ corr_result.outcome = "ValueError"
    /\ correlation_matrix # None /\ covariance_matrix # None
    /\ Len(correlation_matrix.columns) = 2

\* the position whose projection a template takes with _find_projection
TemplatePosition(stat_type) ==
    IF stat_type \in {"Pass Attempts", "Passing Yards"} THEN "QB"
    ELSE IF stat_type \in {"Rush Yards", "Rush Attempts"} THEN "RB"
    ELSE "none"

CandidatesFor(stat_type) ==
    {i \in 1..Len(projections) :
        /\ projections[i].position = TemplatePosition(stat_type)
        /\ projections[i].stat_type = stat_type}

\* C30: the passer and ball-carrier legs of a parlay come from the first
\* projection in input order whose position and stat type match the
\* template, whatever its edge or recommendation, and only projections of the
\* template's position qualify: a passer's own Rush Yards projection never
\* becomes the ball-carrier Rush Yards leg.
C30_FirstMatchOfPosition ==
    Done => \A parlay \in ParlaySet : \A leg \in LegSet(parlay) :
                TemplatePosition(leg.stat_type) # "none" =>
                    /\ CandidatesFor(leg.stat_type) # {}
                    /\ \E i \in CandidatesFor(leg.stat_type) :
                          /\ \A j \in CandidatesFor(leg.stat_type) : i <= j
                          /\ leg.player_name = projections[i].player_name
                          /\ leg.line = projections[i].market_line

\* two passers, the second with the larger edge on pass attempts: the leg is
\* the first one's; the first passer's Rush Yards projection is no leg
C30_Witness ==
    /\ Done /\ Len(parlays) >= 1
    /\ parlays[1].game_script = "Trailing Script"
    /\ \A leg \in LegSet(parlays[1]) : leg.stat_type # "Rush Yards"
    /\ \E i \in 1..Len(projections) :
          projections[i].position = "QB" /\ projections[i].stat_type = "Rush Yards"
    /\ \E leg \in LegSet(parlays[1]) : \E i, j \in CandidatesFor("Pass Attempts") :
          /\ leg.stat_type = "Pass Attempts"
          /\ i < j
          /\ leg.player_name = projections[i].player_name
          /\ projections[i].player_name # projections[j].player_name
          /\ Abs(projections[j].edge) > Abs(projections[i].edge)

====
